---- MODULE Spec2Model ----
(***************************************************************************)
(* Verification model of the ai_mentor project tracker: the roadmap        *)
(* service (getRoadmap / saveRoadmap / updateTaskStatus), the RoadmapView  *)
(* and ProgressView components that read and toggle the stored roadmap,    *)
(* and the ChatView greeting bootstrap over the aiChats message log.       *)
(***************************************************************************)
EXTENDS Integers, Sequences, FiniteSets, TLC

VARIABLES
    store,          \* projects/{projectId}.roadmap in Firestore, or Null
    clock,          \* the clock behind Timestamp.now() and serverTimestamp()
    pvRoadmap,      \* ProgressView: the roadmap state calculateProgress reads
    svcLast,        \* history: the last direct call of the roadmap service, its outcome
    \* RoadmapView, one per browser session
    version,        \* the RoadmapView build: "optimistic" or "snapshot"
    roadmap,        \* [session -> the component's roadmap state]
    updating,       \* [session -> the updating flag]
    generating,     \* [session -> the generating flag]
    lpc,            \* [session -> loadData of the optimistic build: "loading" / "done"]
    tpc,            \* [session -> where toggleTask / updateTaskStatus is suspended]
    targs,          \* [session -> the arguments of the pending updateTaskStatus]
    tsave,          \* [session -> the roadmap updateTaskStatus hands to saveRoadmap]
    texisting,      \* [session -> existingRoadmap read by that saveRoadmap]
    gpc,            \* [session -> where handleGenerateRoadmap is suspended]
    gexisting,      \* [session -> existingRoadmap read by its saveRoadmap]
    snapq,          \* [session -> document snapshots pushed and not yet delivered]
    \* history of the run, read by the properties only
    preToggle,      \* [session -> the roadmap state when its pending toggle began]
    replaced,       \* [session -> the roadmap state was replaced during that toggle]
    localFrom,      \* [session -> the handler that last assigned the roadmap state]
    toggles,        \* the toggleTask calls accepted so far
    generations,    \* the handleGenerateRoadmap calls accepted so far
    \* the chat: projects/{projectId}/aiChats and ChatView, one per session
    chatLog,        \* the documents of aiChats the server holds, in append order
    cpending,       \* [session -> its addDoc writes not yet settled, local only]
    cmounted,       \* [session -> a ChatView is mounted]
    messages,       \* [session -> the messages state]
    initialMessageSent, \* [session -> the initialMessageSent state]
    sub,            \* [session -> the listener of the current effect run]
    capSent,        \* [session -> initialMessageSent as that effect's closure holds it]
    chatq,          \* [session -> query snapshots pushed to it, not yet delivered]
    leak,           \* [session -> a fallback listener an effect cleanup left attached:
                    \*  "none", "live" (of the mounted component) or "gone"]
    leakCap,        \* [session -> initialMessageSent as that listener's closure holds it]
    leakq,          \* [session -> query snapshots pushed to that listener]
    \* history of the run, read by the properties only
    greetIssued,    \* [session -> saveChatMessage calls made by sendInitialMessage]
    cmounts,        \* [session -> ChatView mounts so far]
    cerrors,        \* subscription errors so far
    cfailures,      \* rejected addDoc writes so far
    cchanges,       \* changes of the project prop so far
    \* ChatView.handleSend of session 1, and the chat listener of a RoadmapView
    chatVersion,    \* which of the repository's three ChatView sources runs
    loading,        \* ChatView state: a handleSend is under way
    spc,            \* where handleSend stands
    userInput,      \* handleSend: the trimmed input of the call under way
    chatHistory,    \* the history handed to the generateAIResponse call in flight
    awaited,        \* the id of the addDoc whose promise handleSend awaits
    writes,         \* addDoc calls issued by session 1 so far
    sends,          \* handleSend calls accepted so far
    throws,         \* generateAIResponse calls that threw so far
    unsaved,        \* history: the user inputs whose saveChatMessage gave null
    seen,           \* history: the user messages whose stored copy was delivered
    aiAppends,      \* history: assistant-role addDoc calls of this handleSend
    project,        \* the project prop of RoadmapView
    hasChatHistory, \* RoadmapView state
    rvSub,          \* RoadmapView: the listener loadChatMessages attached
    rvq             \* RoadmapView: query snapshots not yet delivered

svcVars == <<store, clock, pvRoadmap, svcLast>>

viewVars == <<version, roadmap, updating, generating, lpc, tpc, targs, tsave,
              texisting, gpc, gexisting, snapq, preToggle, replaced, localFrom,
              toggles, generations>>

chatVars == <<chatLog, cpending, cmounted, messages, initialMessageSent, sub,
              capSent, chatq, leak, leakCap, leakq, greetIssued, cmounts, cerrors,
              cfailures, cchanges>>

sendVars == <<chatVersion, loading, spc, userInput, chatHistory, awaited, writes,
              sends, throws, unsaved, seen, aiAppends, project, hasChatHistory, rvSub,
              rvq>>

vars == <<svcVars, viewVars, chatVars, sendVars>>

----------------------------------------------------------------------------
(* Bounds of the model *)

MaxClock == 4        \* SpecService: the calls that write
MaxCalls == 2        \* SpecRoadmap: the toggleTask and handleGenerateRoadmap
                     \* calls accepted, both sessions together
MaxMounts == 2       \* SpecChat: the mounts of ChatView, both sessions together
MaxErrors == 1       \* SpecChat: the subscription errors
MaxFailures == 1     \* SpecChat: the rejected addDoc writes
MaxChanges == 1      \* SpecChat: the changes of ChatView's project prop

Sessions == {1, 2}

----------------------------------------------------------------------------
(* Values *)

\* JavaScript null / undefined / an absent roadmap field of the document
Null == [isNull |-> TRUE]
NoTs == 0           \* an absent completedAt / createdAt (timestamps start at 1)
NoId == ""
NoDoc == <<0, 0>>          \* a falsy id argument (parentTaskId = null)

\* The roadmaps returned by generateRoadmap after the handler's normalisation:
\* every task and sub-task has an id and completed = false, none has a
\* completedAt.  The one the views generate has one leaf task and one task
\* with two sub-tasks; the larger one has a second phase that reuses a task
\* id of the first.
newSubTask(id) == [id |-> id, completed |-> FALSE, completedAt |-> NoTs]

newTask(id, subTasks) ==
    [id |-> id, completed |-> FALSE, completedAt |-> NoTs, subTasks |-> subTasks]

generatedPhases ==
    << [id |-> "p1",
        tasks |-> << newTask("t1", << >>),
                     newTask("t2", << newSubTask("s1"), newSubTask("s2") >>) >>] >>

generatedRoadmap ==
    [phases |-> generatedPhases, createdAt |-> NoTs, updatedAt |-> NoTs]

generatedRoadmapTwoPhases ==
    [phases |-> generatedPhases \o << [id |-> "p2",
                                       tasks |-> << newTask("t1", << >>) >>] >>,
     createdAt |-> NoTs, updatedAt |-> NoTs]

\* One phase whose only task has no sub-tasks.
generatedRoadmapOneLeaf ==
    [phases |-> << [id |-> "p1", tasks |-> << newTask("t1", << >>) >>] >>,
     createdAt |-> NoTs, updatedAt |-> NoTs]

\* A main task whose id is the id of a sub-task of its neighbour.
generatedRoadmapSharedIds ==
    [phases |-> << [id |-> "p1",
                    tasks |-> << newTask("t2", << newSubTask("s1"), newSubTask("s2") >>),
                                 newTask("s1", << >>) >>] >>,
     createdAt |-> NoTs, updatedAt |-> NoTs]

GeneratedRoadmaps ==
    {generatedRoadmap, generatedRoadmapTwoPhases, generatedRoadmapOneLeaf,
     generatedRoadmapSharedIds}

PhaseIds == {"p1", "p2", "p9"}
TaskIds == {"t1", "t2", "s1", "s2", "t9"}
ParentIds == {NoId, "t1", "t2"}

----------------------------------------------------------------------------
(* roadmapService: updateTaskStatus and saveRoadmap *)

\* updateTaskStatus, the sub-task map callback (sub-task branch).
updatedSubTask(subTask, taskId, completed, now) ==
    IF subTask.id # taskId THEN subTask
    ELSE IF completed
         THEN [subTask EXCEPT !.completed = TRUE, !.completedAt = now]
         ELSE [subTask EXCEPT !.completed = FALSE, !.completedAt = NoTs]

\* updateTaskStatus, the parent of the targeted sub-task: the sub-tasks are
\* mapped, then the parent is auto-completed when all of them are completed;
\* when one is incomplete and the parent was completed only the parent's
\* completedAt is dropped (the spread keeps task.completed).
updatedParentTask(task, taskId, completed, now) ==
    LET updatedSubTasks ==
            [i \in DOMAIN task.subTasks |->
                updatedSubTask(task.subTasks[i], taskId, completed, now)]
        allSubTasksCompleted ==
            \A i \in DOMAIN updatedSubTasks : updatedSubTasks[i].completed
        updatedTask == [task EXCEPT !.subTasks = updatedSubTasks]
    IN  IF allSubTasksCompleted /\ ~task.completed
        THEN [updatedTask EXCEPT !.completed = TRUE, !.completedAt = now]
        ELSE IF ~allSubTasksCompleted /\ task.completed
             THEN [updatedTask EXCEPT !.completedAt = NoTs]
             ELSE updatedTask

\* updateTaskStatus, the main-task branch.
updatedMainTask(task, taskId, completed, now) ==
    IF task.id # taskId THEN task
    ELSE IF completed
         THEN [task EXCEPT !.completed = TRUE, !.completedAt = now]
         ELSE [task EXCEPT !.completed = FALSE, !.completedAt = NoTs]

\* updateTaskStatus, the task map callback.
updatedTaskOf(task, taskId, completed, isSubTask, parentTaskId, now) ==
    IF isSubTask /\ parentTaskId # NoId /\ task.id = parentTaskId
    THEN updatedParentTask(task, taskId, completed, now)
    ELSE updatedMainTask(task, taskId, completed, now)

\* updateTaskStatus, the phase map: updatedPhases.
updatedPhases(phases, phaseId, taskId, completed, isSubTask, parentTaskId, now) ==
    [p \in DOMAIN phases |->
        IF phases[p].id # phaseId THEN phases[p]
        ELSE [phases[p] EXCEPT !.tasks =
                [t \in DOMAIN phases[p].tasks |->
                    updatedTaskOf(phases[p].tasks[t], taskId, completed,
                                  isSubTask, parentTaskId, now)]]]

\* saveRoadmap: roadmapData, from the roadmap to save, the roadmap read by
\* saveRoadmap's own getDoc, and serverTimestamp().
roadmapData(rm, existingRoadmap, serverTimestamp) ==
    [phases |-> rm.phases,
     updatedAt |-> serverTimestamp,
     createdAt |-> IF existingRoadmap # Null /\ existingRoadmap.createdAt # NoTs
                   THEN existingRoadmap.createdAt
                   ELSE serverTimestamp]

----------------------------------------------------------------------------
(* The onSnapshot handler of RoadmapView and of ProgressView *)

\* The document snapshot pushed for projects/{projectId}.
docSnapOf(roadmapField) == [exists |-> TRUE, roadmap |-> roadmapField]

\* setRoadmap(projectData.roadmap || null) when the document exists, else
\* setRoadmap(null).
snapshotRoadmap(docSnap) == IF docSnap.exists THEN docSnap.roadmap ELSE Null

----------------------------------------------------------------------------
(* ProgressView.calculateProgress and RoadmapView.getProgress *)

RECURSIVE SumTo(_, _)
SumTo(f, n) == IF n = 0 THEN 0 ELSE f[n] + SumTo(f, n - 1)

Sum(f) == SumTo(f, Len(f))

\* Math.round(x * 100) for x = num / den with den > 0: round half up.
mathRoundPct(num, den) == (200 * num + den) \div (2 * den)

\* calculateProgress counts the main task itself and then each sub-task.
taskTotal(task) == 1 + Len(task.subTasks)

taskCompleted(task) ==
    (IF task.completed THEN 1 ELSE 0)
    + Cardinality({i \in DOMAIN task.subTasks : task.subTasks[i].completed})

phaseTotal(phase) == Sum([t \in DOMAIN phase.tasks |-> taskTotal(phase.tasks[t])])

phaseCompleted(phase) ==
    Sum([t \in DOMAIN phase.tasks |-> taskCompleted(phase.tasks[t])])

totalTasks(rm) ==
    Sum([p \in DOMAIN rm.phases |-> phaseTotal(rm.phases[p])])

completedTasks(rm) ==
    Sum([p \in DOMAIN rm.phases |-> phaseCompleted(rm.phases[p])])

\* calculateProgress, were a phase 'in-progress' whenever it is not complete.
phaseProgressNeverPending(phase) ==
    LET pct == IF phaseTotal(phase) > 0
               THEN mathRoundPct(phaseCompleted(phase), phaseTotal(phase))
               ELSE 0
    IN  [id |-> phase.id,
         progress |-> pct,
         status |-> IF pct = 100 THEN "completed" ELSE "in-progress"]

phaseProgress(phase) ==
    LET pct == IF phaseTotal(phase) > 0
               THEN mathRoundPct(phaseCompleted(phase), phaseTotal(phase))
               ELSE 0
    IN  [id |-> phase.id,
         progress |-> pct,
         status |-> IF pct = 100 THEN "completed"
                    ELSE IF pct > 0 THEN "in-progress" ELSE "pending"]

calculateProgress(rm) ==
    IF rm = Null
    THEN [overall |-> 0, phases |-> << >>]
    ELSE [overall |-> IF totalTasks(rm) > 0
                      THEN mathRoundPct(completedTasks(rm), totalTasks(rm))
                      ELSE 0,
          phases |-> [p \in DOMAIN rm.phases |-> phaseProgress(rm.phases[p])]]

\* RoadmapView.getProgress counts main tasks only.
getProgress(rm) ==
    IF rm = Null THEN 0
    ELSE LET total == Sum([p \in DOMAIN rm.phases |-> Len(rm.phases[p].tasks)])
             done == Sum([p \in DOMAIN rm.phases |->
                        Cardinality({t \in DOMAIN rm.phases[p].tasks :
                                        rm.phases[p].tasks[t].completed})])
         IN  IF total > 0 THEN mathRoundPct(done, total) ELSE 0

----------------------------------------------------------------------------
(* RoadmapView: toggleTask and handleGenerateRoadmap, per browser session *)

NoArgs == [phaseId |-> NoId, taskId |-> NoId, completed |-> FALSE]

\* No call of the roadmap service has been made directly.
NoCall == [op |-> "none", outcome |-> "none"]

\* No handleSend has been called and no RoadmapView listens to the chat.
SendIdle ==
    /\ chatVersion = "part_007"
    /\ loading = FALSE
    /\ spc = "idle"
    /\ userInput = ""
    /\ chatHistory = << >>
    /\ awaited = NoDoc
    /\ writes = 0
    /\ sends = 0
    /\ throws = 0
    /\ unsaved = {}
    /\ seen = {}
    /\ aiAppends = 0
    /\ project = Null
    /\ hasChatHistory = FALSE
    /\ rvSub = "none"
    /\ rvq = << >>

\* No ChatView is mounted and aiChats is empty: the state of the chat
\* variables at the start of every specification.
ChatUnmounted ==
    /\ chatLog = << >>
    /\ cpending = [s \in Sessions |-> << >>]
    /\ cmounted = [s \in Sessions |-> FALSE]
    /\ messages = [s \in Sessions |-> << >>]
    /\ initialMessageSent = [s \in Sessions |-> FALSE]
    /\ sub = [s \in Sessions |-> "none"]
    /\ capSent = [s \in Sessions |-> FALSE]
    /\ chatq = [s \in Sessions |-> << >>]
    /\ leak = [s \in Sessions |-> "none"]
    /\ leakCap = [s \in Sessions |-> FALSE]
    /\ leakq = [s \in Sessions |-> << >>]
    /\ greetIssued = [s \in Sessions |-> 0]
    /\ cmounts = [s \in Sessions |-> 0]
    /\ cerrors = 0
    /\ cfailures = 0
    /\ cchanges = 0

\* No RoadmapView is mounted: the state of the view variables in the
\* specifications that do not run the views.
ViewsUnmounted ==
    /\ version = "snapshot"
    /\ roadmap = [s \in Sessions |-> Null]
    /\ updating = [s \in Sessions |-> FALSE]
    /\ generating = [s \in Sessions |-> FALSE]
    /\ lpc = [s \in Sessions |-> "done"]
    /\ tpc = [s \in Sessions |-> "idle"]
    /\ targs = [s \in Sessions |-> NoArgs]
    /\ tsave = [s \in Sessions |-> Null]
    /\ texisting = [s \in Sessions |-> Null]
    /\ gpc = [s \in Sessions |-> "idle"]
    /\ gexisting = [s \in Sessions |-> Null]
    /\ snapq = [s \in Sessions |-> << >>]
    /\ preToggle = [s \in Sessions |-> Null]
    /\ replaced = [s \in Sessions |-> FALSE]
    /\ localFrom = [s \in Sessions |-> "initial"]
    /\ toggles = 0
    /\ generations = 0

\* array.find(x => x?.id === id): the index of the first match, 0 when none.
findIndex(seq, id) ==
    IF \E i \in DOMAIN seq : seq[i].id = id
    THEN CHOOSE i \in DOMAIN seq :
            /\ seq[i].id = id
            /\ \A j \in DOMAIN seq : seq[j].id = id => i <= j
    ELSE 0

\* toggleTask: the task found in the component's roadmap state, Null when
\* the phase or the task is not found.
foundTask(localRoadmap, phaseId, taskId) ==
    LET p == findIndex(localRoadmap.phases, phaseId)
    IN  IF p = 0 THEN Null
        ELSE LET t == findIndex(localRoadmap.phases[p].tasks, taskId)
             IN  IF t = 0 THEN Null ELSE localRoadmap.phases[p].tasks[t]

\* toggleTask of the optimistic build: the setRoadmap(prev => ...) updater of
\* the optimistic update and of the revert; only the completed flag is set.
withCompleted(prev, phaseId, taskId, value) ==
    IF prev = Null THEN prev
    ELSE [prev EXCEPT !.phases =
            [p \in DOMAIN prev.phases |->
                IF prev.phases[p].id # phaseId THEN prev.phases[p]
                ELSE [prev.phases[p] EXCEPT !.tasks =
                        [t \in DOMAIN prev.phases[p].tasks |->
                            IF prev.phases[p].tasks[t].id = taskId
                            THEN [prev.phases[p].tasks[t] EXCEPT !.completed = value]
                            ELSE prev.phases[p].tasks[t]]]]]

\* A catch block that writes newCompletedStatus again instead of its negation.
revertedRoadmapKeepsToggle(prev, args) ==
    IF version = "optimistic"
    THEN withCompleted(prev, args.phaseId, args.taskId, args.completed)
    ELSE prev

\* toggleTask, the catch block: the optimistic build reverts the flag to
\* !newCompletedStatus, the snapshot build only alerts.
revertedRoadmap(prev, args) ==
    IF version = "optimistic"
    THEN withCompleted(prev, args.phaseId, args.taskId, ~args.completed)
    ELSE prev

\* A push that reaches the listener of the first session only.
pushedToOneListener(newStore) ==
    [s \in Sessions |->
        IF version = "snapshot" /\ s = 1 THEN Append(snapq[s], docSnapOf(newStore))
        ELSE snapq[s]]

\* A write of the project document: every onSnapshot listener of the
\* snapshot build is pushed the new document.
pushed(newStore) ==
    [s \in Sessions |->
        IF version = "snapshot" THEN Append(snapq[s], docSnapOf(newStore))
        ELSE snapq[s]]

\* The project has no roadmap yet, or one that was generated and saved
\* earlier; both sessions have just mounted their RoadmapView.
ViewInit ==
    /\ \/ store = Null /\ clock = 1
       \/ store = roadmapData(generatedRoadmap, Null, 1) /\ clock = 2
    /\ pvRoadmap = Null
    /\ svcLast = NoCall
    /\ version \in {"optimistic", "snapshot"}
    /\ roadmap = [s \in Sessions |-> Null]
    /\ updating = [s \in Sessions |-> FALSE]
    /\ generating = [s \in Sessions |-> FALSE]
    /\ lpc = [s \in Sessions |-> IF version = "optimistic" THEN "loading" ELSE "done"]
    /\ tpc = [s \in Sessions |-> "idle"]
    /\ targs = [s \in Sessions |-> NoArgs]
    /\ tsave = [s \in Sessions |-> Null]
    /\ texisting = [s \in Sessions |-> Null]
    /\ gpc = [s \in Sessions |-> "idle"]
    /\ gexisting = [s \in Sessions |-> Null]
    /\ snapq = [s \in Sessions |->
                    IF version = "snapshot" THEN << docSnapOf(store) >> ELSE << >>]
    /\ preToggle = [s \in Sessions |-> Null]
    /\ replaced = [s \in Sessions |-> FALSE]
    /\ localFrom = [s \in Sessions |-> "initial"]
    /\ toggles = 0
    /\ generations = 0
    /\ ChatUnmounted
    /\ SendIdle

\* The optimistic build's mount effect: loadData awaits getRoadmap and sets
\* the roadmap state when a roadmap exists.
LoadData(s) ==
    /\ lpc[s] = "loading"
    /\ lpc' = [lpc EXCEPT ![s] = "done"]
    /\ IF store # Null
       THEN /\ roadmap' = [roadmap EXCEPT ![s] = store]
            /\ localFrom' = [localFrom EXCEPT ![s] = "loaded"]
            /\ replaced' = [replaced EXCEPT ![s] = (tpc[s] # "idle")]
       ELSE UNCHANGED <<roadmap, localFrom, replaced>>
    /\ UNCHANGED <<sendVars, chatVars, svcVars, version, updating, generating, tpc, targs, tsave,
                   texisting, gpc, gexisting, snapq, preToggle, toggles, generations>>

\* An onSnapshot handler that drops the delivery while a toggle is pending.
RoadmapOnSnapshotUnlessUpdating(s) ==
    /\ snapq[s] # << >>
    /\ roadmap' = [roadmap EXCEPT ![s] =
            IF updating[s] THEN roadmap[s] ELSE snapshotRoadmap(Head(snapq[s]))]
    /\ snapq' = [snapq EXCEPT ![s] = Tail(snapq[s])]
    /\ localFrom' = [localFrom EXCEPT ![s] = "snapshot"]
    /\ replaced' = [replaced EXCEPT ![s] = (tpc[s] # "idle")]
    /\ UNCHANGED <<sendVars, chatVars, svcVars, version, updating, generating, lpc, tpc, targs, tsave,
                   texisting, gpc, gexisting, preToggle, toggles, generations>>

\* The snapshot build's onSnapshot handler: the roadmap of the delivered
\* document replaces the roadmap state, whatever the flags are.
RoadmapOnSnapshot(s) ==
    /\ snapq[s] # << >>
    /\ roadmap' = [roadmap EXCEPT ![s] = snapshotRoadmap(Head(snapq[s]))]
    /\ snapq' = [snapq EXCEPT ![s] = Tail(snapq[s])]
    /\ localFrom' = [localFrom EXCEPT ![s] = "snapshot"]
    /\ replaced' = [replaced EXCEPT ![s] = (tpc[s] # "idle")]
    /\ UNCHANGED <<sendVars, chatVars, svcVars, version, updating, generating, lpc, tpc, targs, tsave,
                   texisting, gpc, gexisting, preToggle, toggles, generations>>

\* toggleTask, were it not to return when updating is set.
ToggleStartUnguarded(s, phaseId, taskId) ==
    /\ toggles + generations < MaxCalls
    /\ toggles' = toggles + 1
    /\ roadmap[s] # Null
    /\ foundTask(roadmap[s], phaseId, taskId) # Null
    /\ LET newCompletedStatus == ~foundTask(roadmap[s], phaseId, taskId).completed
       IN  /\ targs' = [targs EXCEPT ![s] =
                [phaseId |-> phaseId, taskId |-> taskId,
                 completed |-> newCompletedStatus]]
           /\ roadmap' = [roadmap EXCEPT ![s] =
                IF version = "optimistic"
                THEN withCompleted(roadmap[s], phaseId, taskId, newCompletedStatus)
                ELSE roadmap[s]]
    /\ updating' = [updating EXCEPT ![s] = TRUE]
    /\ tpc' = [tpc EXCEPT ![s] = "getRoadmap"]
    /\ preToggle' = [preToggle EXCEPT ![s] = roadmap[s]]
    /\ replaced' = [replaced EXCEPT ![s] = FALSE]
    /\ localFrom' = [localFrom EXCEPT ![s] =
            IF version = "optimistic" THEN "optimistic" ELSE localFrom[s]]
    /\ UNCHANGED <<sendVars, chatVars, svcVars, version, generating, lpc, tsave, texisting, gpc,
                   gexisting, snapq, generations>>

\* toggleTask up to its await: the guards, newCompletedStatus from the
\* component's roadmap state, setUpdating(true), the optimistic update of the
\* optimistic build, and the call of updateTaskStatus (getRoadmap in flight).
ToggleStart(s, phaseId, taskId) ==
    /\ toggles + generations < MaxCalls
    /\ toggles' = toggles + 1
    /\ roadmap[s] # Null
    /\ ~updating[s]
    /\ foundTask(roadmap[s], phaseId, taskId) # Null
    /\ LET newCompletedStatus == ~foundTask(roadmap[s], phaseId, taskId).completed
       IN  /\ targs' = [targs EXCEPT ![s] =
                [phaseId |-> phaseId, taskId |-> taskId,
                 completed |-> newCompletedStatus]]
           /\ roadmap' = [roadmap EXCEPT ![s] =
                IF version = "optimistic"
                THEN withCompleted(roadmap[s], phaseId, taskId, newCompletedStatus)
                ELSE roadmap[s]]
    /\ updating' = [updating EXCEPT ![s] = TRUE]
    /\ tpc' = [tpc EXCEPT ![s] = "getRoadmap"]
    /\ preToggle' = [preToggle EXCEPT ![s] = roadmap[s]]
    /\ replaced' = [replaced EXCEPT ![s] = FALSE]
    /\ localFrom' = [localFrom EXCEPT ![s] =
            IF version = "optimistic" THEN "optimistic" ELSE localFrom[s]]
    /\ UNCHANGED <<sendVars, chatVars, svcVars, version, generating, lpc, tsave, texisting, gpc,
                   gexisting, snapq, generations>>

\* The catch and finally blocks of toggleTask.
ToggleCaught(s) ==
    /\ roadmap' = [roadmap EXCEPT ![s] = revertedRoadmap(roadmap[s], targs[s])]
    /\ localFrom' = [localFrom EXCEPT ![s] =
            IF version = "optimistic" THEN "reverted" ELSE localFrom[s]]
    /\ updating' = [updating EXCEPT ![s] = FALSE]
    /\ tpc' = [tpc EXCEPT ![s] = "idle"]
    /\ targs' = [targs EXCEPT ![s] = NoArgs]
    /\ tsave' = [tsave EXCEPT ![s] = Null]
    /\ texisting' = [texisting EXCEPT ![s] = Null]
    /\ preToggle' = [preToggle EXCEPT ![s] = Null]
    /\ replaced' = [replaced EXCEPT ![s] = FALSE]

\* updateTaskStatus: getRoadmap resolves.  Without a roadmap it throws
\* 'Roadmap not found'; with one the phases are mapped and saveRoadmap is
\* called (its getDoc in flight).
ToggleGetRoadmap(s) ==
    /\ tpc[s] = "getRoadmap"
    /\ IF store = Null
       THEN ToggleCaught(s)
       ELSE /\ tsave' = [tsave EXCEPT ![s] =
                    [store EXCEPT !.phases =
                        updatedPhases(store.phases, targs[s].phaseId, targs[s].taskId,
                                      targs[s].completed, FALSE, NoId, clock)]]
            /\ tpc' = [tpc EXCEPT ![s] = "getDoc"]
            /\ UNCHANGED <<roadmap, updating, targs, texisting, preToggle, replaced,
                           localFrom>>
    /\ UNCHANGED <<sendVars, chatVars, svcVars, version, generating, lpc, gpc, gexisting, snapq,
                   toggles, generations>>

\* saveRoadmap called by updateTaskStatus: its getDoc resolves.
ToggleGetDoc(s) ==
    /\ tpc[s] = "getDoc"
    /\ texisting' = [texisting EXCEPT ![s] = store]
    /\ tpc' = [tpc EXCEPT ![s] = "updateDoc"]
    /\ UNCHANGED <<sendVars, chatVars, svcVars, version, roadmap, updating, generating, lpc, targs,
                   tsave, gpc, gexisting, snapq, preToggle, replaced, localFrom,
                   toggles, generations>>

\* saveRoadmap called by updateTaskStatus: its updateDoc reaches the store.
ToggleUpdateDoc(s) ==
    /\ tpc[s] = "updateDoc"
    /\ store' = roadmapData(tsave[s], texisting[s], clock)
    /\ clock' = clock + 1
    /\ snapq' = pushed(store')
    /\ tpc' = [tpc EXCEPT ![s] = "resolved"]
    /\ UNCHANGED <<sendVars, chatVars, pvRoadmap, svcLast, version, roadmap, updating, generating, lpc, targs,
                   tsave, texisting, gpc, gexisting, preToggle, replaced, localFrom,
                   toggles, generations>>

\* updateTaskStatus has resolved: the finally block of toggleTask.
ToggleResolved(s) ==
    /\ tpc[s] = "resolved"
    /\ updating' = [updating EXCEPT ![s] = FALSE]
    /\ tpc' = [tpc EXCEPT ![s] = "idle"]
    /\ targs' = [targs EXCEPT ![s] = NoArgs]
    /\ tsave' = [tsave EXCEPT ![s] = Null]
    /\ texisting' = [texisting EXCEPT ![s] = Null]
    /\ preToggle' = [preToggle EXCEPT ![s] = Null]
    /\ replaced' = [replaced EXCEPT ![s] = FALSE]
    /\ UNCHANGED <<sendVars, chatVars, svcVars, version, roadmap, generating, lpc, gpc, gexisting,
                   snapq, localFrom, toggles, generations>>

\* updateTaskStatus rejects: getRoadmap, getDoc or updateDoc fails, nothing is
\* written, and toggleTask runs its catch and finally blocks.
ToggleRejected(s) ==
    /\ tpc[s] \in {"getRoadmap", "getDoc", "updateDoc"}
    /\ ToggleCaught(s)
    /\ UNCHANGED <<sendVars, chatVars, svcVars, version, generating, lpc, gpc, gexisting, snapq,
                   toggles, generations>>

\* handleGenerateRoadmap up to saveRoadmap: the project of this specification
\* has all its details, so canGenerateRoadmap() holds; the button is disabled
\* while generating.  generateRoadmap has returned the generated roadmap and
\* saveRoadmap's getDoc is in flight.
GenerateStart(s) ==
    /\ toggles + generations < MaxCalls
    /\ generations' = generations + 1
    /\ ~generating[s]
    /\ lpc[s] = "done"
    /\ generating' = [generating EXCEPT ![s] = TRUE]
    /\ gpc' = [gpc EXCEPT ![s] = "getDoc"]
    /\ UNCHANGED <<sendVars, chatVars, svcVars, version, roadmap, updating, lpc, tpc, targs, tsave,
                   texisting, gexisting, snapq, preToggle, replaced, localFrom,
                   toggles>>

\* saveRoadmap called by handleGenerateRoadmap: its getDoc resolves.
GenerateGetDoc(s) ==
    /\ gpc[s] = "getDoc"
    /\ gexisting' = [gexisting EXCEPT ![s] = store]
    /\ gpc' = [gpc EXCEPT ![s] = "updateDoc"]
    /\ UNCHANGED <<sendVars, chatVars, svcVars, version, roadmap, updating, generating, lpc, tpc, targs,
                   tsave, texisting, snapq, preToggle, replaced, localFrom,
                   toggles, generations>>

\* The write of a regeneration, were saveRoadmap to keep the phases of the
\* roadmap it read.
GenerateUpdateDocMerging(s) ==
    /\ gpc[s] = "updateDoc"
    /\ store' = roadmapData(
                    IF gexisting[s] # Null
                    THEN [generatedRoadmap EXCEPT !.phases = gexisting[s].phases]
                    ELSE generatedRoadmap,
                    gexisting[s], clock)
    /\ clock' = clock + 1
    /\ snapq' = pushed(store')
    /\ gpc' = [gpc EXCEPT ![s] = "resolved"]
    /\ UNCHANGED <<sendVars, chatVars, pvRoadmap, svcLast, version, roadmap, updating, generating, lpc, tpc,
                   targs, tsave, texisting, gexisting, preToggle, replaced,
                   localFrom, toggles, generations>>

\* saveRoadmap called by handleGenerateRoadmap: its updateDoc reaches the store.
GenerateUpdateDoc(s) ==
    /\ gpc[s] = "updateDoc"
    /\ store' = roadmapData(generatedRoadmap, gexisting[s], clock)
    /\ clock' = clock + 1
    /\ snapq' = pushed(store')
    /\ gpc' = [gpc EXCEPT ![s] = "resolved"]
    /\ UNCHANGED <<sendVars, chatVars, pvRoadmap, svcLast, version, roadmap, updating, generating, lpc, tpc,
                   targs, tsave, texisting, gexisting, preToggle, replaced,
                   localFrom, toggles, generations>>

\* saveRoadmap has resolved: setRoadmap(generatedRoadmap), then the finally
\* block.
GenerateResolved(s) ==
    /\ gpc[s] = "resolved"
    /\ roadmap' = [roadmap EXCEPT ![s] = generatedRoadmap]
    /\ localFrom' = [localFrom EXCEPT ![s] = "generated"]
    /\ replaced' = [replaced EXCEPT ![s] = (tpc[s] # "idle")]
    /\ generating' = [generating EXCEPT ![s] = FALSE]
    /\ gpc' = [gpc EXCEPT ![s] = "idle"]
    /\ gexisting' = [gexisting EXCEPT ![s] = Null]
    /\ UNCHANGED <<sendVars, chatVars, svcVars, version, updating, lpc, tpc, targs, tsave, texisting,
                   snapq, preToggle, toggles, generations>>

\* generateRoadmap or saveRoadmap rejects: the catch block alerts, the finally
\* block clears generating.
GenerateRejected(s) ==
    /\ gpc[s] \in {"getDoc", "updateDoc"}
    /\ generating' = [generating EXCEPT ![s] = FALSE]
    /\ gpc' = [gpc EXCEPT ![s] = "idle"]
    /\ gexisting' = [gexisting EXCEPT ![s] = Null]
    /\ UNCHANGED <<sendVars, chatVars, svcVars, version, roadmap, updating, lpc, tpc, targs, tsave,
                   texisting, snapq, preToggle, replaced, localFrom, toggles, generations>>

ViewNext ==
    \E s \in Sessions :
        \/ LoadData(s)
        \/ RoadmapOnSnapshot(s)
        \/ \E phaseId \in PhaseIds, taskId \in TaskIds : ToggleStart(s, phaseId, taskId)
        \/ ToggleGetRoadmap(s)
        \/ ToggleGetDoc(s)
        \/ ToggleUpdateDoc(s)
        \/ ToggleResolved(s)
        \/ ToggleRejected(s)
        \/ GenerateStart(s)
        \/ GenerateGetDoc(s)
        \/ GenerateUpdateDoc(s)
        \/ GenerateResolved(s)
        \/ GenerateRejected(s)

SpecRoadmap == ViewInit /\ [][ViewNext]_vars

----------------------------------------------------------------------------
(* Properties of RoadmapView, checked under SpecRoadmap *)

\* The step in which toggleTask of session s finishes through its catch block.
ToggleFails(s) ==
    /\ tpc[s] \in {"getRoadmap", "getDoc", "updateDoc"}
    /\ tpc'[s] = "idle"

\* Every pending call has settled and every pushed snapshot is delivered.
Quiescent ==
    \A s \in Sessions :
        /\ lpc[s] = "done"
        /\ tpc[s] = "idle"
        /\ gpc[s] = "idle"
        /\ snapq[s] = << >>

TaskOfStore(taskId) == foundTask(store, "p1", taskId)

\* C4 as stated: whenever updateTaskStatus rejects, the roadmap state after
\* toggleTask's catch and finally blocks equals by value the roadmap state
\* held when the toggle began, and the stored roadmap is unchanged.
C4_AsStated ==
    [][\A s \in Sessions :
          ToggleFails(s) => (roadmap'[s] = preToggle[s] /\ store' = store)]_vars

\* C4: whenever updateTaskStatus rejects, the failed call leaves the stored
\* roadmap unchanged, and -- provided no snapshot delivery and no
\* setRoadmap(generatedRoadmap) replaced the roadmap state while the write was
\* pending -- the roadmap state after the catch and finally blocks equals by
\* value the roadmap state held when the toggle began.
C4_FailedToggleRestores ==
    [][\A s \in Sessions :
          ToggleFails(s) =>
              /\ store' = store
              /\ ~replaced[s] => roadmap'[s] = preToggle[s]]_vars

\* The optimistic build has reverted a failed toggle of session 1: the roadmap
\* state equals the loaded, stored roadmap again and nothing was written.
C4_Witness ==
    /\ version = "optimistic"
    /\ localFrom[1] = "reverted"
    /\ ~updating[1]
    /\ store # Null
    /\ roadmap[1] = store
    /\ clock = 2

\* C5: every delivery of a document snapshot to a RoadmapView, also while the
\* view's own toggle write is pending (updating = true), makes the roadmap
\* state exactly the roadmap of the delivered snapshot (Null when the roadmap
\* field is absent).
C5_SnapshotReplaces ==
    [][\A s \in Sessions :
          Len(snapq'[s]) < Len(snapq[s]) =>
              roadmap'[s] = snapshotRoadmap(Head(snapq[s]))]_vars

\* A snapshot carrying another session's write has replaced the roadmap state
\* of session 1 while its own toggle write is still pending.
C5_Witness ==
    /\ version = "snapshot"
    /\ updating[1]
    /\ tpc[1] = "updateDoc"
    /\ replaced[1]
    /\ roadmap[1] # preToggle[1]
    /\ roadmap[1] = store

\* C6: in the snapshot build, once every write has settled and every pushed
\* snapshot is delivered, the roadmap state of each session whose last
\* assignment was not handleGenerateRoadmap's own setRoadmap equals the stored
\* roadmap.
C6_SessionsConverge ==
    (version = "snapshot" /\ Quiescent) =>
        \A s \in Sessions : localFrom[s] # "generated" => roadmap[s] = store

\* Two sessions have toggled t1 and t2 concurrently, both from the same stored
\* roadmap; the second write to reach the store has overwritten the first
\* (t1 is not completed in the store), and both sessions show the store.
C6_Witness ==
    /\ version = "snapshot"
    /\ Quiescent
    /\ toggles = 2
    /\ clock = 4
    /\ store # Null
    /\ TaskOfStore("t2").completed
    /\ ~TaskOfStore("t1").completed
    /\ \A s \in Sessions : roadmap[s] = store

----------------------------------------------------------------------------
(* The roadmap service called directly: one client, each call run to its end *)

SvcInit ==
    /\ store = Null
    /\ clock = 1
    /\ pvRoadmap = Null
    /\ svcLast = NoCall
    /\ ViewsUnmounted
    /\ ChatUnmounted
    /\ SendIdle

\* saveRoadmap(projectId, generatedRoadmap): generation or regeneration.
SvcSaveRoadmap(generated) ==
    /\ clock <= MaxClock
    /\ store' = roadmapData(generated, store, clock)
    /\ clock' = clock + 1
    /\ svcLast' = [op |-> "saveRoadmap", outcome |-> "written"]
    /\ UNCHANGED <<sendVars, chatVars, pvRoadmap, viewVars>>

\* updateTaskStatus(projectId, phaseId, taskId, completed, isSubTask,
\* parentTaskId): getRoadmap, the map over the phases, saveRoadmap.
SvcUpdateTaskStatus(phaseId, taskId, completed, isSubTask, parentTaskId) ==
    /\ clock <= MaxClock
    /\ store # Null
    /\ store' = roadmapData(
                    [store EXCEPT !.phases =
                        updatedPhases(store.phases, phaseId, taskId, completed,
                                      isSubTask, parentTaskId, clock)],
                    store, clock)
    /\ clock' = clock + 1
    /\ svcLast' = [op |-> "updateTaskStatus", outcome |-> "written"]
    /\ UNCHANGED <<sendVars, chatVars, pvRoadmap, viewVars>>

\* getRoadmap: null when the project document does not exist or holds no
\* roadmap.
getRoadmap(docSnap) == IF docSnap.exists THEN docSnap.roadmap ELSE Null

\* What getDoc returns for a project whose document does not exist.
NoDocSnap == [exists |-> FALSE, roadmap |-> Null]

\* updateTaskStatus on a project without a roadmap, were it to write the
\* roadmap it could not read instead of throwing.
SvcUpdateTaskStatusCreates ==
    /\ store = Null
    /\ clock <= MaxClock
    /\ \E docSnap \in {docSnapOf(store), NoDocSnap} : getRoadmap(docSnap) = Null
    /\ store' = roadmapData([phases |-> << >>], Null, clock)
    /\ clock' = clock + 1
    /\ svcLast' = [op |-> "updateTaskStatus", outcome |-> "written"]
    /\ UNCHANGED <<sendVars, chatVars, pvRoadmap, viewVars>>

\* updateTaskStatus on a project without a roadmap (store = Null stands for
\* a document without a roadmap field and for no document at all): throws
\* 'Roadmap not found' before any write.
SvcUpdateTaskStatusNotFound ==
    /\ store = Null
    /\ \E docSnap \in {docSnapOf(store), NoDocSnap} : getRoadmap(docSnap) = Null
    /\ svcLast' = [op |-> "updateTaskStatus", outcome |-> "Roadmap not found"]
    /\ UNCHANGED <<sendVars, chatVars, store, clock, pvRoadmap, viewVars>>

\* ProgressView: the onSnapshot handler sets the roadmap state from the
\* document; the component renders calculateProgress of that state.
SvcProgressOnSnapshot ==
    /\ pvRoadmap' = snapshotRoadmap(docSnapOf(store))
    /\ UNCHANGED <<sendVars, chatVars, store, clock, svcLast, viewVars>>

SvcNext ==
    \/ \E generated \in GeneratedRoadmaps : SvcSaveRoadmap(generated)
    \/ \E phaseId \in PhaseIds, taskId \in TaskIds, completed \in BOOLEAN,
          isSubTask \in BOOLEAN, parentTaskId \in ParentIds :
            SvcUpdateTaskStatus(phaseId, taskId, completed, isSubTask, parentTaskId)
    \/ SvcUpdateTaskStatusNotFound
    \/ SvcProgressOnSnapshot

SpecService == SvcInit /\ [][SvcNext]_vars

----------------------------------------------------------------------------
(* chatService: saveChatMessage and loadChatMessages *)

\* sendInitialMessage: the opening sentence of initialContent.
GreetingContent ==
    "Hello! I'm your AI Project Mentor. I'm here to help guide you through your project."

\* saveChatMessage: the message handed to addDoc; createdAt is
\* serverTimestamp(), absent until the server has accepted the write.
newMessage(s, role, content) ==
    [id |-> <<s, greetIssued[s] + 1>>, role |-> role, content |-> content,
     createdAt |-> NoTs]

\* saveChatMessage: the guards before addDoc (projectId is always set here;
\* content stands for content.trim()).
saveAccepted(role, content) == role \in {"user", "ai"} /\ content # ""

\* The position of element i when seq is sorted by keys, stably (Array.sort).
sortRank(keys, i) ==
    1 + Cardinality({j \in DOMAIN keys :
                        keys[j] < keys[i] \/ (keys[j] = keys[i] /\ j < i)})

sortedByKeys(seq, keys) ==
    [r \in DOMAIN seq |-> seq[CHOOSE i \in DOMAIN seq : sortRank(keys, i) = r]]

\* The documents an unordered query returns come in document-id order.
idKeys(docs) ==
    [i \in DOMAIN docs |->
        Cardinality({j \in DOMAIN docs :
            \/ docs[j].id[1] < docs[i].id[1]
            \/ docs[j].id[1] = docs[i].id[1] /\ docs[j].id[2] < docs[i].id[2]})]

\* The query snapshot a listener of session s is pushed: the server's
\* documents and the session's own pending writes, by createdAt for the
\* ordered query (pending writes last) and by document id for the fallback.
querySnapshot(kind, log, pending) ==
    IF kind = "fallback"
    THEN sortedByKeys(log \o pending, idKeys(log \o pending))
    ELSE log \o pending

\* A Firestore Timestamp counts finer units than the milliseconds of a
\* Date; a createdAt is a number of such ticks.
TicksPerMs == 2

\* Timestamp.toDate(): the Date of the millisecond the Timestamp falls in.
toDate(createdAt) == createdAt \div TicksPerMs

\* loadChatMessages, processMessages: role 'ai' becomes 'assistant', a
\* createdAt becomes createdAt.toDate() and a missing one new Date(), the
\* list is sorted by timestamp.getTime().
processMessages(docs, now) ==
    LET converted == [i \in DOMAIN docs |->
            [id |-> docs[i].id,
             role |-> IF docs[i].role = "ai" THEN "assistant" ELSE "user",
             content |-> docs[i].content,
             timestamp |-> IF docs[i].createdAt # NoTs
                           THEN toDate(docs[i].createdAt) ELSE now]]
    IN  sortedByKeys(converted, [i \in DOMAIN converted |-> converted[i].timestamp])

\* new Date() at a delivery: not before any createdAt the server has given
\* (a write of ChatView lands in a millisecond of its own).
Now == Len(chatLog) + 1

----------------------------------------------------------------------------
(* ChatView: the subscription effect and sendInitialMessage, per session *)

Attached(kind) == kind \in {"ordered", "fallback"}

\* The queues of session s after the documents its listeners see changed to
\* log and pending; q and lq are the queues before the push.
pushedChat(kind, q, log, pending) ==
    IF Attached(kind) THEN Append(q, querySnapshot(kind, log, pending)) ELSE q

\* The same for a fallback listener left attached by a cleanup.
pushedLeak(state, lq, log, pending) ==
    IF state # "none" THEN Append(lq, querySnapshot("fallback", log, pending)) ELSE lq

\* The callback ChatView hands to loadChatMessages, and sendInitialMessage
\* when it calls it: cap is initialMessageSent as the closure holds it, live
\* tells whether the component of the closure is still mounted, q and lq are
\* the queues of the session once the delivery was taken from them.  The
\* project prop is set whenever ChatView is rendered.
\* The callback, were it never to call sendInitialMessage.
ChatCallbackNoGreeting(s, firestoreMessages, cap, live, q, lq) ==
    /\ messages' = [messages EXCEPT ![s] =
            IF live THEN firestoreMessages ELSE messages[s]]
    /\ initialMessageSent' = [initialMessageSent EXCEPT ![s] =
            IF live /\ firestoreMessages # << >>
            THEN TRUE ELSE initialMessageSent[s]]
    /\ UNCHANGED <<greetIssued, cpending>>
    /\ chatq' = [chatq EXCEPT ![s] = q]
    /\ leakq' = [leakq EXCEPT ![s] = lq]

ChatCallback(s, firestoreMessages, cap, live, q, lq) ==
    LET greet == /\ firestoreMessages = << >>
                 /\ ~cap
                 /\ saveAccepted("ai", GreetingContent)
    IN  /\ messages' = [messages EXCEPT ![s] =
                IF live THEN firestoreMessages ELSE messages[s]]
        /\ initialMessageSent' = [initialMessageSent EXCEPT ![s] =
                IF live /\ (greet \/ firestoreMessages # << >>)
                THEN TRUE ELSE initialMessageSent[s]]
        /\ greetIssued' = [greetIssued EXCEPT ![s] =
                IF greet THEN greetIssued[s] + 1 ELSE greetIssued[s]]
        /\ cpending' = [cpending EXCEPT ![s] =
                IF greet
                THEN Append(cpending[s], newMessage(s, "ai", GreetingContent))
                ELSE cpending[s]]
        /\ chatq' = [chatq EXCEPT ![s] =
                IF greet THEN pushedChat(sub'[s], q, chatLog, cpending'[s]) ELSE q]
        /\ leakq' = [leakq EXCEPT ![s] =
                IF greet THEN pushedLeak(leak'[s], lq, chatLog, cpending'[s]) ELSE lq]

\* The subscription effect runs: loadChatMessages attaches the ordered
\* listener, whose first snapshot is what the session's cache holds.
Subscribed(s) ==
    /\ sub' = [sub EXCEPT ![s] = "ordered"]
    /\ capSent' = [capSent EXCEPT ![s] = initialMessageSent'[s]]
    /\ chatq' = [chatq EXCEPT ![s] =
            << querySnapshot("ordered", chatLog, cpending[s]) >>]

\* The effect cleanup calls the unsubscribe loadChatMessages returned, which
\* detaches the ordered listener only: a fallback listener stays attached.
leakAfterCleanup(s, mounted) ==
    IF sub[s] = "fallback" \/ leak[s] # "none"
    THEN (IF mounted THEN "live" ELSE "gone")
    ELSE "none"

leakCapAfterCleanup(s) == IF sub[s] = "fallback" THEN capSent[s] ELSE leakCap[s]

leakqAfterCleanup(s) == IF sub[s] = "fallback" THEN chatq[s] ELSE leakq[s]

\* The ChatView tab is opened.
ChatMount(s) ==
    /\ ~cmounted[s]
    /\ cmounts[1] + cmounts[2] < MaxMounts
    /\ cmounts' = [cmounts EXCEPT ![s] = cmounts[s] + 1]
    /\ cmounted' = [cmounted EXCEPT ![s] = TRUE]
    /\ messages' = [messages EXCEPT ![s] = << >>]
    /\ initialMessageSent' = [initialMessageSent EXCEPT ![s] = FALSE]
    /\ Subscribed(s)
    /\ UNCHANGED <<sendVars, svcVars, viewVars, chatLog, cpending, leak, leakCap, leakq,
                   greetIssued, cerrors, cfailures, cchanges>>

\* The ChatView tab is left: the cleanups run and the state is dropped.
ChatUnmount(s) ==
    /\ cmounted[s]
    /\ cmounted' = [cmounted EXCEPT ![s] = FALSE]
    /\ sub' = [sub EXCEPT ![s] = "none"]
    /\ chatq' = [chatq EXCEPT ![s] = << >>]
    /\ leak' = [leak EXCEPT ![s] = leakAfterCleanup(s, FALSE)]
    /\ leakCap' = [leakCap EXCEPT ![s] = leakCapAfterCleanup(s)]
    /\ leakq' = [leakq EXCEPT ![s] = leakqAfterCleanup(s)]
    /\ messages' = [messages EXCEPT ![s] = << >>]
    /\ initialMessageSent' = [initialMessageSent EXCEPT ![s] = FALSE]
    /\ capSent' = [capSent EXCEPT ![s] = FALSE]
    /\ UNCHANGED <<sendVars, svcVars, viewVars, chatLog, cpending, greetIssued, cmounts,
                   cerrors, cfailures, cchanges>>

\* The project prop changes identity: the effect's cleanup runs and the
\* effect runs again, its closure holding the state of this render.
ChatProjectChanged(s) ==
    /\ cmounted[s]
    /\ cchanges < MaxChanges
    /\ cchanges' = cchanges + 1
    /\ leak' = [leak EXCEPT ![s] = leakAfterCleanup(s, TRUE)]
    /\ leakCap' = [leakCap EXCEPT ![s] = leakCapAfterCleanup(s)]
    /\ leakq' = [leakq EXCEPT ![s] = leakqAfterCleanup(s)]
    /\ UNCHANGED initialMessageSent
    /\ Subscribed(s)
    /\ UNCHANGED <<sendVars, svcVars, viewVars, chatLog, cpending, cmounted, messages,
                   greetIssued, cmounts, cerrors, cfailures>>

\* A query snapshot reaches the listener of the current effect run.
ChatOnSnapshot(s) ==
    /\ Attached(sub[s])
    /\ chatq[s] # << >>
    /\ UNCHANGED <<sub, leak>>
    /\ ChatCallback(s, processMessages(Head(chatq[s]), Now), capSent[s], TRUE,
                    Tail(chatq[s]), leakq[s])
    /\ UNCHANGED <<sendVars, svcVars, viewVars, chatLog, cmounted, capSent, leakCap, cmounts,
                   cerrors, cfailures, cchanges>>

\* A query snapshot reaches a fallback listener left attached by a cleanup;
\* its closure belongs to an effect run that is over, and its state setters
\* still act on the component when that component is still mounted.
ChatLeakedOnSnapshot(s) ==
    /\ leak[s] # "none"
    /\ leakq[s] # << >>
    /\ UNCHANGED <<sub, leak>>
    /\ ChatCallback(s, processMessages(Head(leakq[s]), Now), leakCap[s],
                    leak[s] = "live", chatq[s], Tail(leakq[s]))
    /\ UNCHANGED <<sendVars, svcVars, viewVars, chatLog, cmounted, capSent, leakCap, cmounts,
                   cerrors, cfailures, cchanges>>

\* The listener of the current effect run reports an error.  The ordered
\* listener with a missing-index error attaches the fallback listener; any
\* other error, and any error of the fallback listener, calls callback([]).
ChatSubscriptionError(s, indexMissing) ==
    /\ Attached(sub[s])
    /\ cerrors < MaxErrors
    /\ cerrors' = cerrors + 1
    /\ UNCHANGED leak
    /\ IF sub[s] = "ordered" /\ indexMissing
       THEN /\ sub' = [sub EXCEPT ![s] = "fallback"]
            /\ chatq' = [chatq EXCEPT ![s] =
                    << querySnapshot("fallback", chatLog, cpending[s]) >>]
            /\ UNCHANGED <<messages, initialMessageSent, greetIssued, cpending, leakq>>
       ELSE /\ sub' = [sub EXCEPT ![s] = "dead"]
            /\ ChatCallback(s, << >>, capSent[s], TRUE, << >>, leakq[s])
    /\ UNCHANGED <<sendVars, svcVars, viewVars, chatLog, cmounted, capSent, leakCap, cmounts,
                   cfailures, cchanges>>

\* The server accepts the oldest pending addDoc of session s: the document
\* gets its createdAt and every attached listener is pushed a snapshot.
ChatWriteLands(s) ==
    /\ cpending[s] # << >>
    /\ chatLog' = Append(chatLog,
            [Head(cpending[s]) EXCEPT !.createdAt = TicksPerMs * (Len(chatLog) + 1)])
    /\ cpending' = [cpending EXCEPT ![s] = Tail(cpending[s])]
    /\ chatq' = [r \in Sessions |-> pushedChat(sub[r], chatq[r], chatLog', cpending'[r])]
    /\ leakq' = [r \in Sessions |-> pushedLeak(leak[r], leakq[r], chatLog', cpending'[r])]
    /\ UNCHANGED <<sendVars, svcVars, viewVars, cmounted, messages, initialMessageSent, sub,
                   capSent, leak, leakCap, greetIssued, cmounts, cerrors, cfailures,
                   cchanges>>

\* The server rejects the oldest pending addDoc of session s: saveChatMessage
\* returns null, the local copy is dropped and the session's listeners are
\* pushed a snapshot without it.
ChatWriteFails(s) ==
    /\ cpending[s] # << >>
    /\ cfailures < MaxFailures
    /\ cfailures' = cfailures + 1
    /\ cpending' = [cpending EXCEPT ![s] = Tail(cpending[s])]
    /\ chatq' = [chatq EXCEPT ![s] =
            pushedChat(sub[s], chatq[s], chatLog, cpending'[s])]
    /\ leakq' = [leakq EXCEPT ![s] =
            pushedLeak(leak[s], leakq[s], chatLog, cpending'[s])]
    /\ UNCHANGED <<sendVars, svcVars, viewVars, chatLog, cmounted, messages, initialMessageSent,
                   sub, capSent, leak, leakCap, greetIssued, cmounts, cerrors,
                   cchanges>>

ChatNext ==
    \E s \in Sessions :
        \/ ChatMount(s)
        \/ ChatUnmount(s)
        \/ ChatProjectChanged(s)
        \/ ChatOnSnapshot(s)
        \/ ChatLeakedOnSnapshot(s)
        \/ \E indexMissing \in BOOLEAN : ChatSubscriptionError(s, indexMissing)
        \/ ChatWriteLands(s)
        \/ ChatWriteFails(s)

ChatInit ==
    /\ store = Null
    /\ clock = 1
    /\ pvRoadmap = Null
    /\ svcLast = NoCall
    /\ ViewsUnmounted
    /\ ChatUnmounted
    /\ SendIdle

SpecChat == ChatInit /\ [][ChatNext]_vars

----------------------------------------------------------------------------
(* Properties of ChatView, checked under SpecChat *)

\* The greeting messages the server holds.
StoredGreetings ==
    {i \in DOMAIN chatLog :
        chatLog[i].role = "ai" /\ chatLog[i].content = GreetingContent}

\* C1: when each session mounts its ChatView at most once, with no
\* subscription error, no rejected write and no change of the project prop,
\* at most one greeting message is ever appended to the stored log, also when
\* both views receive an empty snapshot before either greeting is visible to
\* the other.
C1_OneGreetingInRace ==
    (/\ cerrors = 0
     /\ cfailures = 0
     /\ cchanges = 0
     /\ \A s \in Sessions : cmounts[s] <= 1)
        => Cardinality(StoredGreetings) <= 1

\* C2: within one session, over any sequence of snapshot deliveries and any
\* unmount and remount of ChatView (no subscription error occurring),
\* sendInitialMessage issues its saveChatMessage at most once.
C2_GreetingIssuedOnce ==
    cerrors = 0 => \A s \in Sessions : greetIssued[s] <= 1

\* C3: with a single session using the chat, whatever snapshot deliveries and
\* subscription errors preceded it, sendInitialMessage issues its
\* saveChatMessage only in a state where the stored log is empty.
C3_NoGreetingOnStoredHistory ==
    [][\A s \in Sessions :
          (/\ greetIssued'[s] > greetIssued[s]
           /\ \A r \in Sessions \ {s} : cmounts[r] = 0)
              => chatLog = << >>]_vars

----------------------------------------------------------------------------
(* Properties of the roadmap service, checked under SpecService *)

AllTasks(rm) ==
    {rm.phases[p].tasks[t] :
        <<p, t>> \in {<<p, t>> \in (DOMAIN rm.phases) \X (1..8) :
                        t \in DOMAIN rm.phases[p].tasks}}

SubTasksOf(task) == {task.subTasks[i] : i \in DOMAIN task.subTasks}

AllSubTasksCompleted(task) == \A st \in SubTasksOf(task) : st.completed

\* completedAt is present exactly when completed is true.
StampedIffCompleted(node) == (node.completedAt # NoTs) <=> node.completed

\* The leaves of a roadmap: a task without sub-tasks, or a sub-task.
LeafTotal(rm) ==
    Sum([p \in DOMAIN rm.phases |->
        Sum([t \in DOMAIN rm.phases[p].tasks |->
            LET task == rm.phases[p].tasks[t]
            IN  IF task.subTasks = << >> THEN 1 ELSE Len(task.subTasks)])])

LeafCompleted(rm) ==
    Sum([p \in DOMAIN rm.phases |->
        Sum([t \in DOMAIN rm.phases[p].tasks |->
            LET task == rm.phases[p].tasks[t]
            IN  IF task.subTasks = << >>
                THEN (IF task.completed THEN 1 ELSE 0)
                ELSE Cardinality({i \in DOMAIN task.subTasks :
                                    task.subTasks[i].completed})])])

\* C7 (Invariant A): in the roadmap written by updateTaskStatus, every task
\* and every sub-task has a completedAt if and only if its completed flag is
\* true.
C7_InvariantA ==
    store # Null =>
        \A task \in AllTasks(store) :
            /\ StampedIffCompleted(task)
            /\ \A st \in SubTasksOf(task) : StampedIffCompleted(st)

\* C8: on a parent that is stamped iff completed and completed iff all its
\* sub-tasks are, a sub-task call that leaves every sub-task of the parent
\* completed leaves the parent completed with a completedAt, and a sub-task
\* call that un-completes a sub-task of a completed parent leaves the parent
\* with completed = false and no completedAt.
C8_SubTaskRollup ==
    [][\A phaseId \in PhaseIds, taskId \in TaskIds, completed \in BOOLEAN,
          parentTaskId \in ParentIds \ {NoId} :
            SvcUpdateTaskStatus(phaseId, taskId, completed, TRUE, parentTaskId) =>
                \A p \in DOMAIN store.phases : \A t \in DOMAIN store.phases[p].tasks :
                    LET old == store.phases[p].tasks[t]
                        new == store'.phases[p].tasks[t]
                    IN  (/\ store.phases[p].id = phaseId
                         /\ old.id = parentTaskId
                         /\ \E st \in SubTasksOf(old) : st.id = taskId
                         /\ StampedIffCompleted(old)
                         /\ old.completed <=> AllSubTasksCompleted(old))
                        => /\ (completed /\ AllSubTasksCompleted(new))
                                => (new.completed /\ new.completedAt # NoTs)
                           /\ (~completed /\ old.completed)
                                => (~new.completed /\ new.completedAt = NoTs)]_vars

\* C9 (Invariant B): every task with a non-empty subTasks list is completed
\* if and only if all of its sub-tasks are completed.
C9_InvariantB ==
    store # Null =>
        \A task \in AllTasks(store) :
            task.subTasks # << >> => (task.completed <=> AllSubTasksCompleted(task))

\* C10: the overall progress is an integer in 0..100, is 0 when there are no
\* leaves, is 100 exactly when every leaf is completed and 0 exactly when no
\* leaf is completed.
C10_OverallProgress ==
    pvRoadmap # Null =>
        LET overall == calculateProgress(pvRoadmap).overall
            leaves == LeafTotal(pvRoadmap)
            done == LeafCompleted(pvRoadmap)
        IN  /\ overall \in 0..100
            /\ leaves = 0 => overall = 0
            /\ leaves > 0 => /\ (overall = 100 <=> done = leaves)
                             /\ (overall = 0 <=> done = 0)


\* The leaves of one phase: a task without sub-tasks is one leaf, a task with
\* sub-tasks is none and each of its sub-tasks is one.
PhaseLeafTotal(phase) ==
    Sum([t \in DOMAIN phase.tasks |->
        IF phase.tasks[t].subTasks = << >> THEN 1 ELSE Len(phase.tasks[t].subTasks)])

PhaseLeafCompleted(phase) ==
    Sum([t \in DOMAIN phase.tasks |->
        LET task == phase.tasks[t]
        IN  IF task.subTasks = << >>
            THEN (IF task.completed THEN 1 ELSE 0)
            ELSE Cardinality({i \in DOMAIN task.subTasks : task.subTasks[i].completed})])

LeafPct(done, total) == IF total > 0 THEN mathRoundPct(done, total) ELSE 0

\* C11: the overall percentage and every per-phase percentage of
\* calculateProgress are the rounded share of completed leaves among the
\* leaves, a task with sub-tasks contributing nothing itself.
C11_LeafCounting ==
    pvRoadmap # Null =>
        /\ calculateProgress(pvRoadmap).overall
                = LeafPct(LeafCompleted(pvRoadmap), LeafTotal(pvRoadmap))
        /\ \A p \in DOMAIN pvRoadmap.phases :
                calculateProgress(pvRoadmap).phases[p].progress
                    = LeafPct(PhaseLeafCompleted(pvRoadmap.phases[p]),
                              PhaseLeafTotal(pvRoadmap.phases[p]))


\* Every task and sub-task of rm is stamped iff completed, and every task with
\* sub-tasks is completed iff all of them are.
Consistent(rm) ==
    \A task \in AllTasks(rm) :
        /\ StampedIffCompleted(task)
        /\ \A st \in SubTasksOf(task) : StampedIffCompleted(st)
        /\ task.subTasks # << >> => (task.completed <=> AllSubTasksCompleted(task))

\* The call addresses an existing leaf of rm that is not completed: a main
\* task without sub-tasks, or a sub-task named together with its parent.
IncompleteLeaf(rm, phaseId, taskId, isSubTask, parentTaskId) ==
    \E p \in DOMAIN rm.phases : \E t \in DOMAIN rm.phases[p].tasks :
        LET task == rm.phases[p].tasks[t]
        IN  /\ rm.phases[p].id = phaseId
            /\ IF isSubTask
               THEN /\ task.id = parentTaskId
                    /\ \E st \in SubTasksOf(task) : st.id = taskId /\ ~st.completed
               ELSE /\ task.id = taskId
                    /\ task.subTasks = << >>
                    /\ ~task.completed

\* C12: on a consistent stored roadmap, for every leaf that is not
\* completed, the phases updateTaskStatus computes for (leaf, true) and then,
\* from those, for (leaf, false) equal the stored phases.
C12_LeafRoundTrip ==
    (store # Null /\ Consistent(store)) =>
        \A phaseId \in PhaseIds, taskId \in TaskIds, isSubTask \in BOOLEAN,
           parentTaskId \in ParentIds :
            IncompleteLeaf(store, phaseId, taskId, isSubTask, parentTaskId) =>
                updatedPhases(
                    updatedPhases(store.phases, phaseId, taskId, TRUE, isSubTask,
                                  parentTaskId, clock),
                    phaseId, taskId, FALSE, isSubTask, parentTaskId, clock + 1)
                = store.phases


\* The call names nothing of rm: no phase phaseId, or in that phase no main
\* task taskId (main-task call), or no task parentTaskId with a sub-task
\* taskId (sub-task call).
UnknownTarget(rm, phaseId, taskId, isSubTask, parentTaskId) ==
    ~ \E p \in DOMAIN rm.phases : \E t \in DOMAIN rm.phases[p].tasks :
        LET task == rm.phases[p].tasks[t]
        IN  /\ rm.phases[p].id = phaseId
            /\ IF isSubTask
               THEN /\ task.id = parentTaskId
                    /\ \E st \in SubTasksOf(task) : st.id = taskId
               ELSE task.id = taskId

\* C13: updateTaskStatus with a phaseId, taskId or parentTaskId/sub-task id
\* that does not exist in the roadmap writes phases equal to the phases it
\* read.
C13_UnknownIdNoOp ==
    [][\A phaseId \in PhaseIds, taskId \in TaskIds, completed \in BOOLEAN,
          isSubTask \in BOOLEAN, parentTaskId \in ParentIds :
            (/\ SvcUpdateTaskStatus(phaseId, taskId, completed, isSubTask, parentTaskId)
             /\ isSubTask => parentTaskId # NoId
             /\ UnknownTarget(store, phaseId, taskId, isSubTask, parentTaskId))
            => store'.phases = store.phases]_vars


----------------------------------------------------------------------------
(* geminiService.checkProjectDetails, RoadmapView.canGenerateRoadmap and the
   chat listener of RoadmapView *)

\* The project documents of the model; createProject stores a trimmed
\* description, so no description here is blank without being empty.
Projects ==
    [description : {"", "A mentor app"},
     techStack : {<< >>, <<"React">>},
     targetDate : {"", "2026-01-31"}]

checkProjectDetails(projectData) ==
    LET missingFields ==
               (IF projectData.description = "" THEN <<"description">> ELSE << >>)
            \o (IF projectData.techStack = << >> THEN <<"tech stack">> ELSE << >>)
            \o (IF projectData.targetDate = ""
                THEN <<"timeline/target date">> ELSE << >>)
    IN  [hasAllDetails |-> missingFields = << >>, missingFields |-> missingFields]

canGenerateRoadmap ==
    IF project = Null THEN FALSE
    ELSE checkProjectDetails(project).hasAllDetails \/ hasChatHistory

\* RoadmapView, the callback handed to loadChatMessages.
chatCount(validMessages) ==
    Cardinality({i \in DOMAIN validMessages : validMessages[i].role = "user"})

----------------------------------------------------------------------------
(* ChatView.handleSend in session 1, in the three sources of ChatView the
   repository holds: part_007 (the store is the only source of the displayed
   log), and the two components of ChatView.jsx, which append to the
   displayed log before they save *)

Sender == 1

Versions == {"part_007", "ChatView_1", "ChatView_2"}

MaxSends == 1        \* SpecSend: the handleSend calls accepted
MaxThrows == 1       \* SpecSend: the generateAIResponse calls that throw

UserInputs == <<"first question", "second question">>

Replies == {"reply"}

\* handleSend, the catch branch: the message saved (part_007, ChatView_2).
Apology ==
    "I apologize, but I encountered an error processing your message. Please try again."

\* handleSend of ChatView_1, the catch branch: the message displayed.
errorContent(apiError) ==
    IF apiError
    THEN "AI service is currently unavailable. Please check your API configuration or try again later."
    ELSE "Sorry, I encountered an error while generating a response. Please try again."

\* saveChatMessage called by session 1: the documents addDoc is handed, none
\* when a guard returns null.  n numbers the addDoc calls of the session.
issued(n, role, content) ==
    IF saveAccepted(role, content)
    THEN << [id |-> <<Sender, n>>, role |-> role, content |-> content,
             createdAt |-> NoTs] >>
    ELSE << >>

\* A message ChatView builds itself.  Its id is made from Date.now() and is
\* no document id: the first component 0 marks it, n tells the ids apart.
localMessage(n, role, content) ==
    [id |-> <<0, n>>, role |-> role, content |-> content, timestamp |-> Now]

\* ChatView_1: the greeting it displays has the fixed id 'initial'.
InitialId == <<-1, 0>>

\* ChatView_2: the greeting it displays has the id `initial-${Date.now()}`.
InitialIdStamped == <<-1, 1>>

\* saveChatMessage(projectId, role, content) and the snapshot the local
\* listener is pushed for the pending write; q is the listener's queue.
Save(role, content, q) ==
    LET docs == issued(writes + 1, role, content)
    IN  /\ cpending' = [cpending EXCEPT ![Sender] = cpending[Sender] \o docs]
        /\ writes' = writes + Len(docs)
        /\ awaited' = IF docs # << >> /\ chatVersion = "part_007"
                      THEN <<Sender, writes + 1>> ELSE NoDoc
        /\ chatq' = [chatq EXCEPT ![Sender] =
                IF docs # << >>
                THEN Append(q, querySnapshot("ordered", chatLog, cpending'[Sender]))
                ELSE q]

NoSave(q) ==
    /\ UNCHANGED <<cpending, writes, awaited>>
    /\ chatq' = [chatq EXCEPT ![Sender] = q]

\* The chat variables no step of SpecSend changes.
chatRest == <<cmounted, sub, capSent, leak, leakCap, leakq, greetIssued, cmounts,
              cchanges>>

\* The callback of part_007 (lines 36-49) with sendInitialMessage.
CallbackPart007(firestoreMessages, q) ==
    /\ messages' = [messages EXCEPT ![Sender] = firestoreMessages]
    /\ IF firestoreMessages = << >> /\ ~capSent[Sender]
       THEN /\ initialMessageSent' = [initialMessageSent EXCEPT ![Sender] = TRUE]
            /\ Save("ai", GreetingContent, q)
       ELSE /\ initialMessageSent' = [initialMessageSent EXCEPT ![Sender] =
                    IF firestoreMessages # << >> THEN TRUE ELSE @]
            /\ NoSave(q)

\* The callback of ChatView_2, were it to add a non-empty delivery to the
\* displayed log instead of replacing the log with it.
CallbackChatView2Merging(firestoreMessages, q) ==
    IF firestoreMessages # << >>
    THEN /\ messages' = [messages EXCEPT ![Sender] = @ \o firestoreMessages]
         /\ initialMessageSent' = [initialMessageSent EXCEPT ![Sender] = TRUE]
         /\ NoSave(q)
    ELSE /\ UNCHANGED <<messages, initialMessageSent>>
         /\ NoSave(q)

\* The callback of ChatView_2 (ChatView.jsx lines 290-308) with
\* sendInitialMessage (lines 318-365): an empty delivery clears nothing.
CallbackChatView2(firestoreMessages, q) ==
    IF firestoreMessages # << >>
    THEN /\ messages' = [messages EXCEPT ![Sender] = firestoreMessages]
         /\ initialMessageSent' = [initialMessageSent EXCEPT ![Sender] = TRUE]
         /\ NoSave(q)
    ELSE IF ~capSent[Sender]
         THEN /\ initialMessageSent' = [initialMessageSent EXCEPT ![Sender] = TRUE]
              /\ messages' = [messages EXCEPT ![Sender] =
                    IF @ = << >>
                    THEN << [id |-> InitialIdStamped, role |-> "assistant",
                             content |-> GreetingContent, timestamp |-> Now] >>
                    ELSE @]
              /\ Save("ai", GreetingContent, q)
         ELSE /\ UNCHANGED <<messages, initialMessageSent>>
              /\ NoSave(q)

\* The callback of ChatView_1 (ChatView.jsx lines 28-70).  initialMessageShown
\* (held in initialMessageSent) is a dependency of the effect: when the
\* callback changes it the effect runs again, and the new listener starts
\* with the snapshot of what the cache holds.  The greeting is saved with the
\* role 'model', which saveChatMessage does not accept.
CallbackChatView1(firestoreMessages, q) ==
    LET changed == ~initialMessageSent[Sender]
        resubscribed == IF changed
                        THEN << querySnapshot("ordered", chatLog, cpending[Sender]) >>
                        ELSE q
    IN  IF firestoreMessages # << >>
        THEN /\ messages' = [messages EXCEPT ![Sender] = firestoreMessages]
             /\ initialMessageSent' = [initialMessageSent EXCEPT ![Sender] = TRUE]
             /\ NoSave(resubscribed)
        ELSE IF ~initialMessageSent[Sender]
             THEN /\ messages' = [messages EXCEPT ![Sender] =
                        << [id |-> InitialId, role |-> "model",
                            content |-> GreetingContent, timestamp |-> Now] >>]
                  /\ initialMessageSent' = [initialMessageSent EXCEPT ![Sender] = TRUE]
                  /\ Save("model", GreetingContent, resubscribed)
             ELSE /\ UNCHANGED <<messages, initialMessageSent>>
                  /\ NoSave(q)

\* A query snapshot reaches the listener of ChatView.
SendOnSnapshot ==
    /\ chatq[Sender] # << >>
    /\ LET firestoreMessages == processMessages(Head(chatq[Sender]), Now)
           q == Tail(chatq[Sender])
       IN  CASE chatVersion = "part_007" -> CallbackPart007(firestoreMessages, q)
             [] chatVersion = "ChatView_1" -> CallbackChatView1(firestoreMessages, q)
             [] chatVersion = "ChatView_2" -> CallbackChatView2(firestoreMessages, q)
    /\ seen' = seen \cup {Head(chatq[Sender])[i].content :
                i \in {j \in DOMAIN Head(chatq[Sender]) :
                        /\ Head(chatq[Sender])[j].role = "user"
                        /\ Head(chatq[Sender])[j].createdAt # NoTs}}
    /\ UNCHANGED <<svcVars, viewVars, chatRest, chatLog, cerrors, cfailures,
                   chatVersion, loading, spc, userInput, chatHistory, sends, throws,
                   unsaved, aiAppends, project, hasChatHistory, rvSub, rvq>>

\* handleSend: the history handed to generateAIResponse.
historyPart007(msgs, input) ==
    [i \in DOMAIN msgs |->
        [role |-> IF msgs[i].role = "assistant" THEN "ai" ELSE "user",
         content |-> msgs[i].content]]
    \o << [role |-> "user", content |-> input] >>

historyChatView2(msgs, userMessage) ==
    LET updatedMessages == Append(msgs, userMessage)
    IN  [i \in DOMAIN updatedMessages |->
            [role |-> IF updatedMessages[i].role = "assistant" THEN "ai" ELSE "user",
             content |-> updatedMessages[i].content]]

historyChatView1(msgs) ==
    LET kept == SelectSeq(msgs, LAMBDA msg : msg.id # InitialId)
    IN  [i \in DOMAIN kept |->
            [role |-> IF kept[i].role = "model" THEN "model" ELSE "user",
             content |-> kept[i].content]]

\* Inputs without a visible character.
Blank == {"", "   "}

\* String.prototype.trim on the inputs of the model: a blank input becomes
\* the empty string, the others have no space at either end.
trim(input) == IF input \in Blank THEN "" ELSE input

\* What the input field may hold when the form is submitted: nothing but
\* spaces, or the next question.
TypedInputs ==
    Blank \cup (IF sends < Len(UserInputs) THEN {UserInputs[sends + 1]} ELSE {})

\* handleSend, were it to have no guard on the input and on loading.
HandleSendUnguarded(input) ==
    /\ sends < MaxSends
    /\ sends' = sends + 1
    /\ loading' = TRUE
    /\ userInput' = trim(input)
    /\ aiAppends' = 0
    /\ Save("user", userInput', chatq[Sender])
    /\ LET userMessage == localMessage(2 * sends + 1, "user", userInput')
       IN  CASE chatVersion = "part_007" ->
                    /\ chatHistory' = historyPart007(messages[Sender], userInput')
                    /\ spc' = "saveUser"
                    /\ UNCHANGED messages
             [] chatVersion = "ChatView_1" ->
                    /\ chatHistory' = historyChatView1(messages[Sender])
                    /\ spc' = "generate"
                    /\ messages' = [messages EXCEPT ![Sender] = Append(@, userMessage)]
             [] chatVersion = "ChatView_2" ->
                    /\ chatHistory' = historyChatView2(messages[Sender], userMessage)
                    /\ spc' = "generate"
                    /\ messages' = [messages EXCEPT ![Sender] = Append(@, userMessage)]
    /\ UNCHANGED <<svcVars, viewVars, chatRest, chatLog, initialMessageSent, cerrors,
                   cfailures, chatVersion, throws, unsaved, seen, project, hasChatHistory,
                   rvSub, rvq>>

\* handleSend is called with a non-blank input while no other is under way.
\* Everything up to the first await runs in this step: part_007 builds the
\* history and awaits the save of the user message; the components of
\* ChatView.jsx append the user message to the displayed log, start its
\* save without awaiting it, build the history and call generateAIResponse.
HandleSendWith(input) ==
    /\ trim(input) # ""
    /\ ~loading
    /\ sends < MaxSends
    /\ sends' = sends + 1
    /\ loading' = TRUE
    /\ userInput' = trim(input)
    /\ aiAppends' = 0
    /\ Save("user", userInput', chatq[Sender])
    /\ LET userMessage == localMessage(2 * sends + 1, "user", userInput')
       IN  CASE chatVersion = "part_007" ->
                    /\ chatHistory' = historyPart007(messages[Sender], userInput')
                    /\ spc' = "saveUser"
                    /\ UNCHANGED messages
             [] chatVersion = "ChatView_1" ->
                    /\ chatHistory' = historyChatView1(messages[Sender])
                    /\ spc' = "generate"
                    /\ messages' = [messages EXCEPT ![Sender] = Append(@, userMessage)]
             [] chatVersion = "ChatView_2" ->
                    /\ chatHistory' = historyChatView2(messages[Sender], userMessage)
                    /\ spc' = "generate"
                    /\ messages' = [messages EXCEPT ![Sender] = Append(@, userMessage)]
    /\ UNCHANGED <<svcVars, viewVars, chatRest, chatLog, initialMessageSent, cerrors,
                   cfailures, chatVersion, throws, unsaved, seen, project, hasChatHistory,
                   rvSub, rvq>>

\* The form is submitted with whatever the input field holds.
HandleSend == \E input \in TypedInputs : HandleSendWith(input)

\* The promise of the awaited saveChatMessage has settled (with an id or
\* with null: handleSend reads neither).
Settled == \A i \in DOMAIN cpending[Sender] : cpending[Sender][i].id # awaited

\* part_007, were handleSend not to await the save of the user message.
SendUserSavedUnawaited ==
    /\ spc = "saveUser"
    /\ spc' = "generate"
    /\ awaited' = NoDoc
    /\ UNCHANGED <<svcVars, viewVars, chatVars, chatVersion, loading, userInput,
                   chatHistory, writes, sends, throws, unsaved, seen, aiAppends, project,
                   hasChatHistory, rvSub, rvq>>

\* part_007: the save of the user message returns and generateAIResponse is
\* called.
SendUserSaved ==
    /\ spc = "saveUser"
    /\ Settled
    /\ spc' = "generate"
    /\ awaited' = NoDoc
    /\ UNCHANGED <<svcVars, viewVars, chatVars, chatVersion, loading, userInput,
                   chatHistory, writes, sends, throws, unsaved, seen, aiAppends, project,
                   hasChatHistory, rvSub, rvq>>

\* generateAIResponse resolves with aiResponseText.
GenerateResolves(aiResponseText) ==
    /\ spc = "generate"
    /\ chatHistory' = << >>
    /\ CASE chatVersion = "part_007" ->
                /\ Save("ai", aiResponseText, chatq[Sender])
                /\ aiAppends' = aiAppends + Len(issued(writes + 1, "ai", aiResponseText))
                /\ spc' = "saveAi"
                /\ UNCHANGED <<messages, loading>>
         [] chatVersion = "ChatView_1" ->
                /\ messages' = [messages EXCEPT ![Sender] =
                        Append(@, localMessage(2 * sends, "model", aiResponseText))]
                /\ loading' = FALSE
                /\ Save("model", aiResponseText, chatq[Sender])
                /\ aiAppends' = aiAppends + Len(issued(writes + 1, "model", aiResponseText))
                /\ spc' = "idle"
         [] chatVersion = "ChatView_2" ->
                /\ messages' = [messages EXCEPT ![Sender] =
                        Append(@, localMessage(2 * sends, "assistant", aiResponseText))]
                /\ loading' = FALSE
                /\ Save("ai", aiResponseText, chatq[Sender])
                /\ aiAppends' = aiAppends + Len(issued(writes + 1, "ai", aiResponseText))
                /\ spc' = "idle"
    /\ UNCHANGED <<svcVars, viewVars, chatRest, chatLog, initialMessageSent, cerrors,
                   cfailures, chatVersion, userInput, sends, throws,
                   unsaved, seen, project, hasChatHistory, rvSub, rvq>>

\* generateAIResponse throws: the catch branch of handleSend.  apiError tells
\* whether the message of the error names the API or a key (ChatView_1).
GenerateThrows(apiError) ==
    /\ spc = "generate"
    /\ chatHistory' = << >>
    /\ throws < MaxThrows
    /\ throws' = throws + 1
    /\ CASE chatVersion = "part_007" ->
                /\ Save("ai", Apology, chatq[Sender])
                /\ aiAppends' = aiAppends + Len(issued(writes + 1, "ai", Apology))
                /\ spc' = "saveError"
                /\ UNCHANGED <<messages, loading>>
         [] chatVersion = "ChatView_1" ->
                /\ messages' = [messages EXCEPT ![Sender] =
                        Append(@, localMessage(2 * sends, "model", errorContent(apiError)))]
                /\ loading' = FALSE
                /\ NoSave(chatq[Sender])
                /\ UNCHANGED aiAppends
                /\ spc' = "idle"
         [] chatVersion = "ChatView_2" ->
                /\ messages' = [messages EXCEPT ![Sender] =
                        Append(@, localMessage(2 * sends, "assistant", Apology))]
                /\ loading' = FALSE
                /\ Save("ai", Apology, chatq[Sender])
                /\ aiAppends' = aiAppends + Len(issued(writes + 1, "ai", Apology))
                /\ spc' = "idle"
    /\ UNCHANGED <<svcVars, viewVars, chatRest, chatLog, initialMessageSent, cerrors,
                   cfailures, chatVersion, userInput, sends, unsaved, seen,
                   project, hasChatHistory, rvSub, rvq>>

\* part_007: the save of the reply or of the apology returns and handleSend
\* ends with setLoading(false).
SendAiSaved ==
    /\ spc \in {"saveAi", "saveError"}
    /\ Settled
    /\ spc' = "idle"
    /\ loading' = FALSE
    /\ awaited' = NoDoc
    /\ UNCHANGED <<svcVars, viewVars, chatVars, chatVersion, userInput, chatHistory,
                   writes, sends, throws, unsaved, seen, aiAppends, project, hasChatHistory,
                   rvSub, rvq>>

\* The snapshot a listener of another session is pushed: the server's
\* documents.
pushedRoadmapChat(kind, q, log) ==
    IF Attached(kind) THEN Append(q, querySnapshot(kind, log, << >>)) ELSE q

\* The server accepts the oldest pending addDoc of session 1.
SendWriteLands ==
    /\ cpending[Sender] # << >>
    /\ chatLog' = Append(chatLog,
            [Head(cpending[Sender]) EXCEPT !.createdAt = TicksPerMs * (Len(chatLog) + 1)])
    /\ cpending' = [cpending EXCEPT ![Sender] = Tail(cpending[Sender])]
    /\ chatq' = [chatq EXCEPT ![Sender] =
            pushedChat(sub[Sender], chatq[Sender], chatLog', cpending'[Sender])]
    /\ rvq' = pushedRoadmapChat(rvSub, rvq, chatLog')
    /\ UNCHANGED <<svcVars, viewVars, chatRest, messages, initialMessageSent, cerrors,
                   cfailures, chatVersion, loading, spc, userInput, chatHistory,
                   awaited, writes, sends, throws, unsaved, seen, aiAppends, project,
                   hasChatHistory, rvSub>>

\* The server rejects the oldest pending addDoc of session 1: saveChatMessage
\* returns null and the local listener is pushed a snapshot without the
\* document.
SendWriteFails ==
    /\ cpending[Sender] # << >>
    /\ cfailures < MaxFailures
    /\ cfailures' = cfailures + 1
    /\ cpending' = [cpending EXCEPT ![Sender] = Tail(cpending[Sender])]
    /\ chatq' = [chatq EXCEPT ![Sender] =
            pushedChat(sub[Sender], chatq[Sender], chatLog, cpending'[Sender])]
    /\ unsaved' = IF Head(cpending[Sender]).role = "user"
                  THEN unsaved \cup {Head(cpending[Sender]).content} ELSE unsaved
    /\ UNCHANGED <<svcVars, viewVars, chatRest, chatLog, messages, initialMessageSent,
                   cerrors, chatVersion, loading, spc, userInput, chatHistory, awaited,
                   writes, sends, throws, seen, aiAppends, project, hasChatHistory, rvSub,
                   rvq>>

\* A query snapshot reaches the chat listener of RoadmapView.
RoadmapChatOnSnapshot ==
    /\ Attached(rvSub)
    /\ rvq # << >>
    /\ hasChatHistory' = (chatCount(processMessages(Head(rvq), Now)) > 0)
    /\ rvq' = Tail(rvq)
    /\ UNCHANGED <<svcVars, viewVars, chatVars, chatVersion, loading, spc, userInput,
                   chatHistory, awaited, writes, sends, throws, unsaved, seen, aiAppends,
                   project, rvSub>>

\* The chat listener of RoadmapView reports an error: a missing index makes
\* loadChatMessages attach the fallback listener, any other error and any
\* error of the fallback listener calls callback([]).
RoadmapChatError(indexMissing) ==
    /\ Attached(rvSub)
    /\ cerrors < MaxErrors
    /\ cerrors' = cerrors + 1
    /\ IF rvSub = "ordered" /\ indexMissing
       THEN /\ rvSub' = "fallback"
            /\ rvq' = << querySnapshot("fallback", chatLog, << >>) >>
            /\ UNCHANGED hasChatHistory
       ELSE /\ rvSub' = "dead"
            /\ rvq' = << >>
            /\ hasChatHistory' = (chatCount(<< >>) > 0)
    /\ UNCHANGED <<svcVars, viewVars, chatRest, chatLog, cpending, messages,
                   initialMessageSent, chatq, cfailures, chatVersion, loading, spc,
                   userInput, chatHistory, awaited, writes, sends, throws, unsaved, seen,
                   aiAppends, project>>

SendNext ==
    \/ SendOnSnapshot
    \/ HandleSend
    \/ SendUserSaved
    \/ \E aiResponseText \in Replies : GenerateResolves(aiResponseText)
    \/ \E apiError \in BOOLEAN : GenerateThrows(apiError)
    \/ SendAiSaved
    \/ SendWriteLands
    \/ SendWriteFails

GenerateNext ==
    \/ SendNext
    \/ RoadmapChatOnSnapshot
    \/ \E indexMissing \in BOOLEAN : RoadmapChatError(indexMissing)

\* What aiChats may hold when ChatView is mounted: nothing, or a question
\* another session asked earlier.
StoredLogs ==
    { << >>,
      << [id |-> <<2, 1>>, role |-> "user", content |-> "earlier question",
          createdAt |-> TicksPerMs] >> }

\* ChatView of session 1 has just been mounted; its listener holds its first
\* snapshot.
SendMounted ==
    /\ store = Null
    /\ clock = 1
    /\ pvRoadmap = Null
    /\ svcLast = NoCall
    /\ ViewsUnmounted
    /\ chatLog \in StoredLogs
    /\ cpending = [s \in Sessions |-> << >>]
    /\ cmounted = [s \in Sessions |-> s = Sender]
    /\ messages = [s \in Sessions |-> << >>]
    /\ initialMessageSent = [s \in Sessions |-> FALSE]
    /\ sub = [s \in Sessions |-> IF s = Sender THEN "ordered" ELSE "none"]
    /\ capSent = [s \in Sessions |-> FALSE]
    /\ chatq = [s \in Sessions |->
            IF s = Sender THEN << querySnapshot("ordered", chatLog, << >>) >>
            ELSE << >>]
    /\ leak = [s \in Sessions |-> "none"]
    /\ leakCap = [s \in Sessions |-> FALSE]
    /\ leakq = [s \in Sessions |-> << >>]
    /\ greetIssued = [s \in Sessions |-> 0]
    /\ cmounts = [s \in Sessions |-> IF s = Sender THEN 1 ELSE 0]
    /\ cerrors = 0
    /\ cfailures = 0
    /\ cchanges = 0
    /\ loading = FALSE
    /\ spc = "idle"
    /\ userInput = ""
    /\ chatHistory = << >>
    /\ awaited = NoDoc
    /\ writes = 0
    /\ sends = 0
    /\ throws = 0
    /\ unsaved = {}
    /\ seen = {}
    /\ aiAppends = 0
    /\ hasChatHistory = FALSE

\* SpecSend: any of the three sources of ChatView, no RoadmapView listening.
SendInit ==
    /\ SendMounted
    /\ chatVersion \in Versions
    /\ project \in {p \in Projects : checkProjectDetails(p).hasAllDetails}
    /\ rvSub = "none"
    /\ rvq = << >>

SpecSend == SendInit /\ [][SendNext]_vars

\* SpecGenerate: a RoadmapView of another session has been mounted as well,
\* on any project; its chat listener holds its first snapshot.
GenerateInit ==
    /\ SendMounted
    /\ chatVersion = "part_007"
    /\ project \in Projects
    /\ rvSub = "ordered"
    /\ rvq = << querySnapshot("ordered", chatLog, << >>) >>

SpecGenerate == GenerateInit /\ [][GenerateNext]_vars


----------------------------------------------------------------------------
(* Properties of canGenerateRoadmap, checked under SpecGenerate *)

\* The stored log holds a message written by the user.
UserMessageStored == \E i \in DOMAIN chatLog : chatLog[i].role = "user"

\* C14: once RoadmapView's chat subscription has delivered every snapshot,
\* canGenerateRoadmap is true exactly when the project has a description, a
\* non-empty techStack and a targetDate, or the message log holds at least
\* one user-authored message.
C14_CanGenerate ==
    rvq = << >> =>
        (canGenerateRoadmap <=>
            \/ /\ project.description # ""
               /\ project.techStack # << >>
               /\ project.targetDate # ""
            \/ UserMessageStored)


----------------------------------------------------------------------------
(* Properties of handleSend, checked under SpecSend *)

\* The entries of the displayed log that show the user's input content.
Shown(content) ==
    {i \in DOMAIN messages[Sender] :
        /\ messages[Sender][i].role = "user"
        /\ messages[Sender][i].content = content}

\* C15: in the components that append the user's message to the displayed
\* log before saving it, a user message whose saveChatMessage gave null is
\* still in the displayed log once every snapshot has been delivered.
C15_UnsentRetained ==
    (chatVersion # "part_007" /\ chatq[Sender] = << >>)
        => \A content \in unsaved : Shown(content) # {}

\* C16: once a snapshot holding the stored copy of a user message has been
\* delivered, the displayed log holds that message exactly once, under its
\* document id and not under a client-generated id, whether the assistant
\* reply is appended to the displayed log before or after the delivery.
C16_StoredCopyOnce ==
    \A content \in seen :
        /\ Cardinality(Shown(content)) = 1
        /\ \A i \in Shown(content) : messages[Sender][i].id[1] # 0

\* ChatView_2 appended the user's message and saved it, the snapshot with
\* the stored copy was delivered, and the reply was appended afterwards.
C16_Witness ==
    /\ chatVersion = "ChatView_2"
    /\ userInput \in seen
    /\ \E i \in DOMAIN messages[Sender] :
            /\ messages[Sender][i].role = "assistant"
            /\ messages[Sender][i].id[1] = 0

\* C17: the history handleSend hands to generateAIResponse is the displayed
\* log, in display order, followed by the user's message as its last
\* element, and holds that message once.
C17_HistoryIsLogPlusInput ==
    [][HandleSend =>
        LET log == messages[Sender]
        IN  /\ Len(chatHistory') = Len(log) + 1
            /\ \A i \in DOMAIN log : chatHistory'[i].content = log[i].content
            /\ chatHistory'[Len(log) + 1] = [role |-> "user", content |-> userInput']
            /\ Cardinality({i \in DOMAIN chatHistory' :
                                chatHistory'[i].content = userInput'}) = 1]_vars

\* The stored log holds, after every user message of session 1, a later
\* message of the assistant.
EveryQuestionAnswered ==
    \A i \in DOMAIN chatLog :
        (chatLog[i].role = "user" /\ chatLog[i].id[1] = Sender)
            => \E j \in DOMAIN chatLog : j > i /\ chatLog[j].role = "ai"

\* C18: a handleSend that finishes has issued exactly one assistant-role
\* append to the store, and once handleSend has finished and every write has
\* settled no user message of the stored log is without a later assistant
\* entry.
C18_OneAssistantAppend ==
    /\ [][(spc # "idle" /\ spc' = "idle") => aiAppends' = 1]_vars
    /\ []((spc = "idle" /\ cpending[Sender] = << >>) => EveryQuestionAnswered)


----------------------------------------------------------------------------
(* Properties of saveRoadmap, checked under SpecRoadmap *)

\* C19: once the store holds a roadmap with a createdAt, every updateDoc of
\* saveRoadmap, from a toggle or a generation of either session, writes a
\* roadmap with that createdAt; and every updateDoc of saveRoadmap writes an
\* updatedAt later than the one it replaces.
C19_CreatedAtPreserved ==
    [][\A s \in Sessions :
        (ToggleUpdateDoc(s) \/ GenerateUpdateDoc(s)) =>
            /\ store'.updatedAt = clock
            /\ store # Null => store'.updatedAt > store.updatedAt
            /\ (store # Null /\ store.createdAt # NoTs)
                    => store'.createdAt = store.createdAt]_vars


----------------------------------------------------------------------------
(* Properties of updateTaskStatus on a missing roadmap, checked under
   SpecService *)

\* C20: a call of updateTaskStatus made while the project has no document or
\* no roadmap ends with the error 'Roadmap not found' and leaves the store
\* as it was: nothing is written.
C20_NotFoundNoWrite ==
    [][(/\ store = Null
        /\ svcLast' # svcLast
        /\ svcLast'.op = "updateTaskStatus")
       => /\ svcLast'.outcome = "Roadmap not found"
          /\ store' = store
          /\ clock' = clock]_vars

\* updateTaskStatus was called on a project without a roadmap.
C20_Witness ==
    /\ store = Null
    /\ svcLast.op = "updateTaskStatus"
    /\ svcLast.outcome = "Roadmap not found"


----------------------------------------------------------------------------
(* loadChatMessages as a function of the snapshots it is pushed: documents
   appended by any client, listeners on the ordered and the fallback query *)

MaxDocs == 3

DocIds == {<<1, 1>>, <<2, 1>>, <<2, 2>>}

\* The createdAt values the server can give: two ticks in each of two
\* milliseconds.
ServerTimes == (TicksPerMs * 1) .. (TicksPerMs * 3 - 1)

MessagesInit ==
    /\ store = Null
    /\ clock = 1
    /\ pvRoadmap = Null
    /\ svcLast = NoCall
    /\ ViewsUnmounted
    /\ SendIdle
    /\ chatLog = << >>
    /\ cpending = [s \in Sessions |-> << >>]
    /\ cmounted = [s \in Sessions |-> TRUE]
    /\ messages = [s \in Sessions |-> << >>]
    /\ initialMessageSent = [s \in Sessions |-> FALSE]
    /\ sub \in [Sessions -> {"ordered", "fallback"}]
    /\ capSent = [s \in Sessions |-> FALSE]
    /\ chatq = [s \in Sessions |-> << >>]
    /\ leak = [s \in Sessions |-> "none"]
    /\ leakCap = [s \in Sessions |-> FALSE]
    /\ leakq = [s \in Sessions |-> << >>]
    /\ greetIssued = [s \in Sessions |-> 0]
    /\ cmounts = [s \in Sessions |-> 0]
    /\ cerrors = 0
    /\ cfailures = 0
    /\ cchanges = 0

\* saveChatMessage of some client: the server accepts the addDoc under an
\* auto-generated document id, with a createdAt later than every one it has
\* given, and pushes a snapshot to every listener.
AddDocLands(id, role, createdAt) ==
    /\ Len(chatLog) < MaxDocs
    /\ \A i \in DOMAIN chatLog :
          chatLog[i].id # id /\ chatLog[i].createdAt < createdAt
    /\ chatLog' = Append(chatLog, [id |-> id, role |-> role, content |-> "m",
                                   createdAt |-> createdAt])
    /\ chatq' = [s \in Sessions |-> pushedChat(sub[s], chatq[s], chatLog', << >>)]
    /\ UNCHANGED <<sendVars, svcVars, viewVars, cpending, cmounted, messages,
                   initialMessageSent, sub, capSent, leak, leakCap, leakq,
                   greetIssued, cmounts, cerrors, cfailures, cchanges>>

\* loadChatMessages, the listener of either query: processMessages runs on
\* the snapshot and hands the list to callback, which keeps it.
LoadOnSnapshot(s) ==
    /\ chatq[s] # << >>
    /\ messages' = [messages EXCEPT ![s] = processMessages(Head(chatq[s]), Now)]
    /\ chatq' = [chatq EXCEPT ![s] = Tail(chatq[s])]
    /\ UNCHANGED <<sendVars, svcVars, viewVars, chatLog, cpending, cmounted,
                   initialMessageSent, sub, capSent, leak, leakCap, leakq,
                   greetIssued, cmounts, cerrors, cfailures, cchanges>>

MessagesNext ==
    \/ \E id \in DocIds, role \in {"user", "ai"}, createdAt \in ServerTimes :
          AddDocLands(id, role, createdAt)
    \/ \E s \in Sessions : LoadOnSnapshot(s)

SpecMessages == MessagesInit /\ [][MessagesNext]_vars

\* The list holds one entry for every document of the snapshot.
ContainsEvery(list, docs) ==
    /\ Len(list) = Len(docs)
    /\ \A i \in DOMAIN docs : \E j \in DOMAIN list : list[j].id = docs[i].id

createdAtOf(docs, id) ==
    docs[CHOOSE i \in DOMAIN docs : docs[i].id = id].createdAt

\* The entries come in the order of the createdAt of their documents.
ByCreationTime(list, docs) ==
    \A i, j \in DOMAIN list :
        i < j => createdAtOf(docs, list[i].id) <= createdAtOf(docs, list[j].id)

\* C21: every list loadChatMessages hands to its callback for a snapshot
\* holds every document of that snapshot and is ordered by creation time
\* ascending, on the ordered and on the fallback subscription, whatever the
\* order the documents arrive in.
C21_ListOrderedByCreation ==
    \A s \in Sessions : \A k \in DOMAIN chatq[s] :
        LET docs == chatq[s][k]
            list == processMessages(docs, Now)
        IN  ContainsEvery(list, docs) /\ ByCreationTime(list, docs)


----------------------------------------------------------------------------
\* C22: when the ordered message subscription reports an error,
\* loadChatMessages attempts the fallback subscription to the unordered query
\* before it surfaces an empty list, and the error of a fallback subscription
\* ends in callback([]) with no further subscription.
C22_FallbackBeforeEmpty ==
    [][\A s \in Sessions :
          cerrors' = cerrors + 1 /\ Attached(sub[s]) /\ sub'[s] # sub[s]
          => IF sub[s] = "ordered"
             THEN sub'[s] = "fallback"
             ELSE sub'[s] = "dead" /\ messages'[s] = << >>]_vars


----------------------------------------------------------------------------
\* A step in which a listener whose effect run was torn down takes a snapshot
\* from its queue and runs processMessages and the callback on it.
DeliveredAfterTeardown(s) ==
    /\ leak[s] # "none"
    /\ leak'[s] = leak[s]
    /\ leakq[s] # << >>
    /\ leakq'[s] # leakq[s]
    /\ Len(leakq'[s]) <= Len(leakq[s])

\* C23: once the unsubscribe function returned by loadChatMessages has been
\* called at teardown, the callback is not invoked again and no ChatView
\* state is updated from a later snapshot, fallback subscriptions and the
\* snapshot of a greeting write in flight included.
C23_SilentAfterUnsubscribe ==
    [][\A s \in Sessions : ~DeliveredAfterTeardown(s)]_vars


----------------------------------------------------------------------------
\* The entries of the displayed log of session s that are greetings of the
\* stored log.
DisplayedGreetings(s) ==
    {i \in DOMAIN messages[s] :
        /\ messages[s][i].role = "assistant"
        /\ messages[s][i].content = GreetingContent
        /\ \E k \in DOMAIN chatLog : chatLog[k].id = messages[s][i].id}

\* C24: when duplicate bootstraps have stored two greetings, the displayed
\* log of a mounted ChatView holds one greeting only, the earliest by
\* createdAt.
C24_EarliestGreetingOnly ==
    \A s \in Sessions :
        cmounted[s] /\ DisplayedGreetings(s) # {}
        => /\ Cardinality(DisplayedGreetings(s)) = 1
           /\ \A i \in DOMAIN messages[s] : \A j \in DisplayedGreetings(s) :
                 messages[s][j].timestamp <= messages[s][i].timestamp
                 \/ messages[s][i].content # GreetingContent


----------------------------------------------------------------------------
\* The roadmap has one phase whose only task has no sub-tasks.
OneLeaf(rm) ==
    /\ rm # Null
    /\ Len(rm.phases) = 1
    /\ Len(rm.phases[1].tasks) = 1
    /\ rm.phases[1].tasks[1].subTasks = << >>

\* C25: for each phase of calculateProgress the status is 'pending' exactly
\* when the progress is 0, 'completed' exactly when it is 100 and
\* 'in-progress' exactly when it is strictly between; for a roadmap of one
\* phase with one leaf the overall progress is 0 and the phase 'pending'
\* while the leaf is open, and 100 and 'completed' once it is completed.
C25_StatusFollowsProgress ==
    LET result == calculateProgress(pvRoadmap)
    IN  /\ \A p \in DOMAIN result.phases :
              LET ph == result.phases[p]
              IN  /\ ph.progress \in 0..100
                  /\ (ph.status = "pending") <=> (ph.progress = 0)
                  /\ (ph.status = "completed") <=> (ph.progress = 100)
                  /\ (ph.status = "in-progress")
                        <=> (ph.progress > 0 /\ ph.progress < 100)
        /\ OneLeaf(pvRoadmap)
           => IF pvRoadmap.phases[1].tasks[1].completed
              THEN result.overall = 100 /\ result.phases[1].status = "completed"
              ELSE result.overall = 0 /\ result.phases[1].status = "pending"

\* ProgressView shows a one-leaf roadmap whose leaf was completed by
\* updateTaskStatus.
C25_Witness ==
    /\ OneLeaf(pvRoadmap)
    /\ pvRoadmap.phases[1].tasks[1].completed
    /\ calculateProgress(pvRoadmap).overall = 100
    /\ svcLast.op = "updateTaskStatus"


----------------------------------------------------------------------------
(* ProgressView.calculateProgress: the recent-completions feed *)

\* The number of entries the feed keeps.
FeedLength == 5

RECURSIVE flat(_)
\* Array.flatMap: the concatenation of the sequences of seqs.
flat(seqs) == IF seqs = << >> THEN << >> ELSE Head(seqs) \o flat(Tail(seqs))

\* One entry of the feed; path stands for the displayed task name, the
\* task's own for a main task and 'task -> sub-task' for a sub-task.
\* completedAt is a Timestamp.now(), which has the resolution of a Date, so
\* convertTimestamp keeps its value; an absent one gives a null timestamp.
update(phase, path, item) ==
    [id |-> <<phase.id, item.id>>, task |-> path, phase |-> phase.id,
     timestamp |-> item.completedAt]

\* The entries of one task: the main task if completed, then its completed
\* sub-tasks.
taskUpdates(phase, task) ==
    LET done == SelectSeq(task.subTasks, LAMBDA subTask : subTask.completed)
    IN  (IF task.completed THEN << update(phase, <<task.id>>, task) >> ELSE << >>)
        \o [i \in DOMAIN done |-> update(phase, <<task.id, done[i].id>>, done[i])]

\* The comparator of the sort: entries without a timestamp last, the others
\* by timestamp descending.
updateKeys(updates) ==
    [i \in DOMAIN updates |->
        IF updates[i].timestamp = NoTs THEN 1 ELSE 0 - updates[i].timestamp]

recentUpdates(rm) ==
    IF rm = Null
    THEN << >>
    ELSE LET all == flat([p \in DOMAIN rm.phases |->
                        flat([t \in DOMAIN rm.phases[p].tasks |->
                            taskUpdates(rm.phases[p], rm.phases[p].tasks[t])])])
             sorted == sortedByKeys(all, updateKeys(all))
         IN  SubSeq(sorted, 1, IF Len(sorted) < FeedLength THEN Len(sorted)
                                                        ELSE FeedLength)

\* The entry stands for a leaf: a sub-task, or a main task without sub-tasks.
IsLeafUpdate(rm, entry) ==
    \/ Len(entry.task) = 2
    \/ \E p \in DOMAIN rm.phases : \E t \in DOMAIN rm.phases[p].tasks :
          /\ rm.phases[p].id = entry.phase
          /\ rm.phases[p].tasks[t].id = entry.task[1]
          /\ rm.phases[p].tasks[t].subTasks = << >>

\* C26: the recent-completions feed of calculateProgress holds completed
\* leaves only (a completed task that has sub-tasks is no entry), at most
\* five of them, most recent completedAt first and entries without a
\* completedAt last.
C26_FeedOfCompletedLeaves ==
    LET feed == recentUpdates(pvRoadmap)
    IN  /\ Len(feed) <= FeedLength
        /\ \A i \in DOMAIN feed : IsLeafUpdate(pvRoadmap, feed[i])
        /\ \A i, j \in DOMAIN feed :
              i < j => \/ feed[j].timestamp = NoTs
                       \/ /\ feed[i].timestamp # NoTs
                          /\ feed[i].timestamp >= feed[j].timestamp


----------------------------------------------------------------------------
(* Regeneration: the generator's validation and the write of saveRoadmap *)

\* The generator's validation of the parsed response: completed is set to
\* false on every task and sub-task (the ids, present here, are kept).
validatedPhases(phases) ==
    [p \in DOMAIN phases |->
        [phases[p] EXCEPT !.tasks =
            [t \in DOMAIN phases[p].tasks |->
                [phases[p].tasks[t] EXCEPT
                    !.completed = FALSE,
                    !.subTasks = [i \in DOMAIN phases[p].tasks[t].subTasks |->
                        [phases[p].tasks[t].subTasks[i] EXCEPT !.completed = FALSE]]]]]]

\* Parsed responses of the model: the requested shape, and the same with
\* tasks or sub-tasks marked completed.
ParsedPhases ==
    {generatedPhases,
     [generatedPhases EXCEPT ![1].tasks[1].completed = TRUE],
     [generatedPhases EXCEPT ![1].tasks[2].completed = TRUE,
                             ![1].tasks[2].subTasks[1].completed = TRUE]}

\* The roadmap holds the generated phases and nothing of an earlier roadmap.
Regenerated(rm) ==
    /\ rm.phases = generatedPhases
    /\ \A task \in AllTasks(rm) :
          /\ ~task.completed /\ task.completedAt = NoTs
          /\ \A subTask \in SubTasksOf(task) :
                ~subTask.completed /\ subTask.completedAt = NoTs

----------------------------------------------------------------------------
\* The call addresses a sub-task of the task parentTaskId.
SubTaskCall(isSubTask, parentTaskId) == isSubTask /\ parentTaskId # NoId

\* What a call of updateTaskStatus may change in the task `before` of the
\* phase phaseId: for a sub-task call the parent's completed and
\* completedAt and the targeted sub-task, otherwise the targeted main task.
WithinFrame(before, after, taskId, isSubTask, parentTaskId) ==
    /\ after.id = before.id
    /\ Len(after.subTasks) = Len(before.subTasks)
    /\ IF SubTaskCall(isSubTask, parentTaskId)
       THEN /\ before.id # parentTaskId => after = before
            /\ \A i \in DOMAIN before.subTasks :
                  before.subTasks[i].id # taskId
                  => after.subTasks[i] = before.subTasks[i]
       ELSE /\ before.id # taskId => after = before
            /\ after.subTasks = before.subTasks

\* A sub-task call names a task of the phase that has the sub-task; a
\* main-task call is taken as it comes.
WellAddressed(phases, phaseId, taskId, isSubTask, parentTaskId) ==
    SubTaskCall(isSubTask, parentTaskId)
    => \E p \in DOMAIN phases : \E t \in DOMAIN phases[p].tasks :
          /\ phases[p].id = phaseId
          /\ phases[p].tasks[t].id = parentTaskId
          /\ \E i \in DOMAIN phases[p].tasks[t].subTasks :
                phases[p].tasks[t].subTasks[i].id = taskId

\* C28: updateTaskStatus changes nothing but the targeted task, or for a
\* sub-task call the targeted sub-task and its parent's completed and
\* completedAt; every other phase, task and sub-task is unchanged, also when
\* ids coincide across levels, and the order and the ids are preserved.
C28_FrameOfUpdate ==
    store # Null =>
      \A phaseId \in PhaseIds, taskId \in TaskIds, completed \in BOOLEAN,
         isSubTask \in BOOLEAN, parentTaskId \in ParentIds :
        LET after == updatedPhases(store.phases, phaseId, taskId, completed,
                                   isSubTask, parentTaskId, clock)
        IN  WellAddressed(store.phases, phaseId, taskId, isSubTask, parentTaskId)
            =>
            /\ Len(after) = Len(store.phases)
            /\ \A p \in DOMAIN after :
                  /\ after[p].id = store.phases[p].id
                  /\ Len(after[p].tasks) = Len(store.phases[p].tasks)
                  /\ store.phases[p].id # phaseId => after[p] = store.phases[p]
                  /\ \A t \in DOMAIN after[p].tasks :
                        WithinFrame(store.phases[p].tasks[t], after[p].tasks[t],
                                    taskId, isSubTask, parentTaskId)


----------------------------------------------------------------------------
(* The bootstrap greeting as a function of the project details *)

\* Array.includes.
includes(seq, x) == \E i \in DOMAIN seq : seq[i] = x

\* The text of a greeting, by its parts after the opening sentence: the
\* missing fields it lists, the field its question asks for ("" when it asks
\* no question), and whether it ends with the open-ended invitation.
greetingText(missing, question, invitation) ==
    [opening |-> GreetingContent, missing |-> missing, question |-> question,
     invitation |-> invitation]

\* sendInitialMessage of part_007 and of the second component of
\* ChatView.jsx.
initialContent(projectData) ==
    LET detailsCheck == checkProjectDetails(projectData)
    IN  IF ~detailsCheck.hasAllDetails
        THEN greetingText(detailsCheck.missingFields,
                IF includes(detailsCheck.missingFields, "description")
                THEN "description"
                ELSE IF includes(detailsCheck.missingFields, "tech stack")
                     THEN "tech stack"
                     ELSE IF includes(detailsCheck.missingFields,
                                      "timeline/target date")
                          THEN "timeline/target date"
                          ELSE "",
                FALSE)
        ELSE greetingText(<< >>, "", TRUE)

\* The greeting of the first component of ChatView.jsx: its last test looks
\* for the element 'timeline'.
initialContentChatView1(projectData) ==
    LET details == checkProjectDetails(projectData)
    IN  IF ~details.hasAllDetails
        THEN greetingText(details.missingFields,
                IF includes(details.missingFields, "description")
                THEN "description"
                ELSE IF includes(details.missingFields, "tech stack")
                     THEN "tech stack"
                     ELSE IF includes(details.missingFields, "timeline")
                          THEN "timeline/target date"
                          ELSE "",
                FALSE)
        ELSE greetingText(<< >>, "", TRUE)

BootstrapInit ==
    /\ store = Null
    /\ clock = 1
    /\ pvRoadmap = Null
    /\ svcLast = NoCall
    /\ ViewsUnmounted
    /\ chatLog = << >>
    /\ cpending = [s \in Sessions |-> << >>]
    /\ cmounted = [s \in Sessions |-> TRUE]
    /\ messages = [s \in Sessions |-> << >>]
    /\ initialMessageSent = [s \in Sessions |-> FALSE]
    /\ sub = [s \in Sessions |-> "ordered"]
    /\ capSent = [s \in Sessions |-> FALSE]
    /\ chatq = [s \in Sessions |-> << << >> >>]
    /\ leak = [s \in Sessions |-> "none"]
    /\ leakCap = [s \in Sessions |-> FALSE]
    /\ leakq = [s \in Sessions |-> << >>]
    /\ greetIssued = [s \in Sessions |-> 0]
    /\ cmounts = [s \in Sessions |-> 1]
    /\ cerrors = 0
    /\ cfailures = 0
    /\ cchanges = 0
    /\ chatVersion \in Versions
    /\ loading = FALSE
    /\ spc = "idle"
    /\ userInput = ""
    /\ chatHistory = << >>
    /\ awaited = NoDoc
    /\ writes = 0
    /\ sends = 0
    /\ throws = 0
    /\ unsaved = {}
    /\ seen = {}
    /\ aiAppends = 0
    /\ project \in Projects
    /\ hasChatHistory = FALSE
    /\ rvSub = "none"
    /\ rvq = << >>

\* The first, empty snapshot reaches the callback of session s: the greeting
\* is composed, shown at once by the two components of ChatView.jsx, and
\* handed to saveChatMessage, which accepts the role 'ai' only.
Bootstrap(s) ==
    LET content == IF chatVersion = "ChatView_1"
                   THEN initialContentChatView1(project)
                   ELSE initialContent(project)
        role == IF chatVersion = "ChatView_1" THEN "model" ELSE "ai"
        shown == [id |-> IF chatVersion = "ChatView_1"
                         THEN InitialId ELSE InitialIdStamped,
                  role |-> IF chatVersion = "ChatView_1" THEN "model" ELSE "assistant",
                  content |-> content, timestamp |-> Now]
    IN  /\ chatq[s] # << >>
        /\ Head(chatq[s]) = << >>
        /\ ~initialMessageSent[s]
        /\ chatq' = [chatq EXCEPT ![s] = Tail(chatq[s])]
        /\ initialMessageSent' = [initialMessageSent EXCEPT ![s] = TRUE]
        /\ messages' = [messages EXCEPT ![s] =
                IF chatVersion = "part_007" THEN << >> ELSE << shown >>]
        /\ greetIssued' = [greetIssued EXCEPT ![s] = greetIssued[s] + 1]
        /\ cpending' = [cpending EXCEPT ![s] =
                IF role \in {"user", "ai"}
                THEN Append(cpending[s], newMessage(s, role, content))
                ELSE cpending[s]]
        /\ UNCHANGED <<sendVars, svcVars, viewVars, chatLog, cmounted, sub, capSent,
                       leak, leakCap, leakq, cmounts, cerrors, cfailures, cchanges>>

\* The addDoc of a greeting is accepted by the server.
BootstrapWriteLands(s) ==
    /\ cpending[s] # << >>
    /\ chatLog' = Append(chatLog,
            [Head(cpending[s]) EXCEPT !.createdAt = TicksPerMs * (Len(chatLog) + 1)])
    /\ cpending' = [cpending EXCEPT ![s] = Tail(cpending[s])]
    /\ UNCHANGED <<sendVars, svcVars, viewVars, cmounted, messages,
                   initialMessageSent, sub, capSent, chatq, leak, leakCap, leakq,
                   greetIssued, cmounts, cerrors, cfailures, cchanges>>

BootstrapNext ==
    \E s \in Sessions : Bootstrap(s) \/ BootstrapWriteLands(s)

SpecBootstrap == BootstrapInit /\ [][BootstrapNext]_vars

\* The greetings composed so far: shown, pending or stored.
ComposedGreetings ==
    UNION {{messages[s][i].content : i \in DOMAIN messages[s]}
           \cup {cpending[s][i].content : i \in DOMAIN cpending[s]} : s \in Sessions}
    \cup {chatLog[i].content : i \in DOMAIN chatLog}

\* C29: the bootstrap greeting lists the missing fields and asks the question
\* for exactly one of them, the first missing among description, tech stack
\* and target date, whenever hasAllDetails is false, for every combination of
\* missing fields; it ends with the open-ended invitation exactly when
\* hasAllDetails is true.
C29_GreetingFollowsDetails ==
    \A greeting \in ComposedGreetings :
        LET detailsCheck == checkProjectDetails(project)
        IN  /\ greeting.invitation <=> detailsCheck.hasAllDetails
            /\ ~detailsCheck.hasAllDetails
               => /\ greeting.missing = detailsCheck.missingFields
                  /\ greeting.question = detailsCheck.missingFields[1]


----------------------------------------------------------------------------
\* C30: in the snapshot build, once handleGenerateRoadmap has returned and
\* every pushed snapshot is delivered, the roadmap state of the session that
\* regenerated equals the stored roadmap, createdAt and updatedAt included,
\* also when a write of another session landed between the save and the
\* handler's setRoadmap.
C30_GeneratedEqualsStored ==
    (version = "snapshot" /\ Quiescent) =>
        \A s \in Sessions : localFrom[s] = "generated" => roadmap[s] = store


----------------------------------------------------------------------------
\* C31: a toggle whose write succeeds changes in the stored roadmap only the
\* targeted task, relative to the stored roadmap immediately before that
\* write: what another session wrote between this call's getRoadmap and its
\* updateDoc is still in the store afterwards.
C31_WriteKeepsOtherWrites ==
    [][\A s \in Sessions :
          tpc[s] = "updateDoc" /\ tpc'[s] = "resolved"
          => store'.phases =
                updatedPhases(store.phases, targs[s].phaseId, targs[s].taskId,
                              targs[s].completed, FALSE, NoId, clock)]_vars


----------------------------------------------------------------------------
\* C32: once the displayed message list of a mounted ChatView is non-empty,
\* no later callback of loadChatMessages makes it empty; an empty list
\* delivered afterwards leaves the displayed messages in place.
C32_NeverCleared ==
    [][\A s \in Sessions :
          cmounted[s] /\ cmounted'[s] /\ messages[s] # << >>
          => messages'[s] # << >>]_vars


----------------------------------------------------------------------------
(* The bootstrap of ChatView under fair delivery *)

\* The steps of views that stay mounted on the same project: no cleanup
\* runs, so no listener outlives its effect run.
MountedNext ==
    \E s \in Sessions :
        \/ ChatMount(s)
        \/ ChatOnSnapshot(s)
        \/ \E indexMissing \in BOOLEAN : ChatSubscriptionError(s, indexMissing)
        \/ ChatWriteLands(s)
        \/ ChatWriteFails(s)

\* Snapshots in a listener's queue are delivered and an addDoc in flight is
\* settled; mounting and errors are under no obligation.
SpecChatFair ==
    /\ ChatInit
    /\ [][MountedNext]_vars
    /\ \A s \in Sessions : /\ WF_vars(ChatOnSnapshot(s))
                           /\ WF_vars(ChatWriteLands(s) \/ ChatWriteFails(s))

\* The displayed log of session s is the stored log, document for document,
\* and starts with a greeting.
Populated(s) ==
    /\ messages[s] # << >>
    /\ Len(messages[s]) = Len(chatLog)
    /\ \A i \in DOMAIN chatLog :
          /\ messages[s][i].id = chatLog[i].id
          /\ messages[s][i].content = chatLog[i].content
    /\ messages[s][1].role = "assistant"
    /\ messages[s][1].content = GreetingContent

----------------------------------------------------------------------------
\* The addDoc of a user message of handleSend has not settled yet.
UserAppendPending ==
    \E i \in DOMAIN cpending[Sender] : cpending[Sender][i].role = "user"

\* The reply or the apology of handleSend has been handed to saveChatMessage:
\* its document is pending or stored.
ReplyIssued ==
    \/ \E i \in DOMAIN cpending[Sender] :
          cpending[Sender][i].role = "ai" /\ cpending[Sender][i].content # GreetingContent
    \/ \E i \in DOMAIN chatLog :
          chatLog[i].role = "ai" /\ chatLog[i].content # GreetingContent

\* C34: in handleSend of part_007 the append of the user message has settled
\* before generateAIResponse is called and before the append of the reply is
\* issued, and in the stored log every reply comes after the user messages
\* issued before it.
C34_UserSettledBeforeReply ==
    chatVersion = "part_007" =>
        /\ spc \in {"generate", "saveAi", "saveError"} => ~UserAppendPending
        /\ (ReplyIssued /\ spc # "saveUser") => ~UserAppendPending
        /\ \A i, j \in DOMAIN chatLog :
              /\ chatLog[i].role = "ai"
              /\ chatLog[j].role = "user"
              /\ chatLog[j].id[2] < chatLog[i].id[2]
              => j < i

\* part_007 has stored a question and, after it, the reply to it.
C34_Witness ==
    /\ chatVersion = "part_007"
    /\ spc = "idle"
    /\ sends = 1
    /\ \E i, j \in DOMAIN chatLog :
          /\ j < i
          /\ chatLog[j].role = "user" /\ chatLog[j].content = UserInputs[1]
          /\ chatLog[i].role = "ai" /\ chatLog[i].content \in Replies


----------------------------------------------------------------------------
\* C35: a RoadmapView never has two updateTaskStatus calls in flight: a call
\* is issued only by a view whose updating is false and which has no call
\* under way (a toggle requested while updating is set issues no read and no
\* write), updating is set exactly while the view's call is under way, and it
\* is false again after every toggle, whether the write succeeded or failed.
C35_OneToggleInFlight ==
    [][/\ toggles' = toggles + 1
          => \E s \in Sessions : /\ ~updating[s]
                                 /\ tpc[s] = "idle"
                                 /\ updating'[s]
                                 /\ tpc'[s] = "getRoadmap"
       /\ \A s \in Sessions : updating'[s] <=> tpc'[s] # "idle"]_vars

\* One view has finished a toggle and its second call is under way, the
\* other view has never shown a roadmap.
C35_Witness ==
    \E s \in Sessions :
        /\ toggles = 2
        /\ updating[s]
        /\ tpc[s] = "getDoc"
        /\ \A r \in Sessions \ {s} : roadmap[r] = Null /\ tpc[r] = "idle"


----------------------------------------------------------------------------
\* The user messages handleSend has handed to saveChatMessage and that are
\* still pending.
UserAppends(pending) ==
    Cardinality({i \in DOMAIN pending : pending[i].role = "user"})

====
